---- MODULE Spec2Model ----
(***************************************************************************)
(* Model of the inference-engine runtime core.                             *)
(*                                                                         *)
(* Graph IR: Graph owns Values and Nodes; Nodes are wired to Values        *)
(* through input/output lists, which maintain the producer / consumers     *)
(* back-links on the Values; Graph::topologicalSort, validate, planMemory  *)
(* and execute are modelled from src/src/graph/attributes.cpp.             *)
(*                                                                         *)
(* Pointers are modelled by identities: a Node* is a number in NodeIds, a  *)
(* Value* a number in ValueIds, and nullptr is NullPtr.                    *)
(***************************************************************************)
EXTENDS Integers, Sequences, FiniteSets, TLC

\* ------------------------------------------------------------------ bounds
MaxNodes == 3          \* nodes a graph holds at one time
MaxValues == 2         \* Values minted by Graph::createValue
MaxLen == 2            \* longest input / output list of a Node or of the Graph
MaxWireCalls == 4      \* Node wiring calls made on one graph
TopoNodes == 3         \* SpecTopo: nodes of the graph
TopoValues == 1        \* SpecTopo: Values of the graph
PlanNodes == 2         \* SpecPlan: nodes of the graph
PlanWireCalls == 3     \* SpecPlan: Node wiring calls
ValidateNodes == 2     \* SpecValidate: nodes of the graph
ValidateValues == 1    \* SpecValidate: owned Values of the graph
ValidateWireCalls == 3 \* SpecValidate: Node wiring calls
ValidateIoLen == 1     \* SpecValidate: graph inputs / outputs declared
OrderNodes == 2        \* SpecOrder: nodes of the graph
OrderWireCalls == 3    \* SpecOrder: Node wiring calls
ExecNodes == 1         \* SpecExec: nodes of the graph
ExecWireCalls == 2     \* SpecExec: Node wiring calls
RewireNodes == 2       \* SpecRewire: nodes of the graph
RewireValues == 1      \* SpecRewire: owned Values of the graph
RewireWireCalls == 3   \* SpecRewire: Node wiring calls
FreeValues == 1        \* SpecValue: Values edited directly
TeardownNodes == 2     \* SpecTeardown: nodes of the graph
TeardownValues == 1    \* SpecTeardown: owned Values of the graph
TeardownWireCalls == 2 \* SpecTeardown: Node wiring calls
SizeBits == 6          \* width of std::size_t in the model (bits)
PeakNodes == 2         \* SpecPeak: nodes of the graph
PeakWireCalls == 2     \* SpecPeak: Node wiring calls
HeapSlots == 4         \* addresses the system allocator hands out
MaxAllocs == 3         \* allocate calls served between two resets
MaxThreads == 2        \* threads that construct Values
MaxIds == 4            \* Values constructed by the threads in total
SysSlots == 2          \* blocks the system heap can hold at once
MaxSysCalls == 3       \* allocator calls that succeed in allocating, per allocator
ThreadCalls == 2       \* SpecSystemThreads: allocate calls that succeed, over all threads
AaCalls == 2           \* SpecArenaAllocator: allocate calls that succeed
MaxBuffers == 2        \* Buffer objects alive at once
BufCalls == 1          \* SpecBuffer: allocations the Buffers' allocator serves
MaxTensors == 3        \* Tensor objects alive at once
MaxRank == 2           \* SpecShape: dimensions of a Shape
MaxDim == 3            \* SpecShape: largest size of a dimension
ViewRank == 2          \* SpecViews: dimensions of the Tensor viewed
ViewDim == 2           \* SpecViews: largest size of a dimension
TensorCalls == 2       \* SpecTensor: allocations a Tensor constructor gets from the allocator
MaxQuantValue == 400   \* SpecQuant: largest |value| quantized, in steps of the common unit
MaxQuantScale == 3     \* SpecQuant: largest scale, in steps of the common unit

\* ------------------------------------------------------------------ program constants
NullPtr == 0           \* nullptr (Value::producer_, entries of Value* lists)

NodeIds == 1..MaxNodes
\* The Values the graph can own, and one Value that lives outside the graph
\* (a Value constructed by the caller, never returned by createValue).
OwnedIds == 1..MaxValues
ForeignValue == MaxValues + 1
ValueIds == OwnedIds \cup {ForeignValue}

\* Operator kinds plugged into nodes: none (nullptr), the tests' NoopOp, and
\* the example IdentityOp.
OpKinds == {"null", "Noop", "Identity"}

\* Value::tensor_ : nullptr, a pointer to a Tensor that is alive, or a pointer
\* to a Tensor whose lifetime has ended.
TensorPtrs == {"null", "live", "dead"}

\* std::size_t arithmetic is modulo SizeMod.
SizeMod == 2 ^ SizeBits

\* core::DataType, and core::bytes_per_element(dt).
DataTypes == {"UNKNOWN", "FP32", "INT8"}

bytes_per_element(dt) == CASE dt = "FP32" -> 4 [] dt = "INT8" -> 1 [] OTHER -> 0

\* The metadata of a Value: Shape::num_elements() of its shape, and its dtype.
\* A default-constructed Value has the empty shape (one element), dtype UNKNOWN.
NoMeta == [num_elements |-> 1, dtype |-> "UNKNOWN"]

\* Shape({2, 2}), FP32.
F32x4 == [num_elements |-> 4, dtype |-> "FP32"]

VARIABLES
    nodes_,         \* Graph::nodes_  : sequence of Node identities
    values_,        \* Graph::values_ : sequence of Value identities
    graph_inputs,   \* Graph::inputs_
    graph_outputs,  \* Graph::outputs_
    node_inputs,    \* Node::inputs_  per node
    node_outputs,   \* Node::outputs_ per node
    node_op,        \* Node::op_      per node (operator kind)
    node_graph,     \* Node::graph_   per node (parent graph)
    op_inputs,      \* Operator::inputs_  of the node's operator
    op_outputs,     \* Operator::outputs_ of the node's operator
    topo_index,     \* Node::topo_index_ per node, -1 for std::nullopt
    producer,       \* Value::producer_  per value
    consumers,      \* Value::consumers_ per value
    tensor,         \* Value::tensor_    per value
    value_meta,     \* Value::shape_ / dtype_ as [num_elements, dtype]
    wire_calls,     \* number of Node wiring calls made so far
    ret,            \* what the last call returned (or that it threw)
    arena,          \* an Arena: base_, capacity_bytes_, used_bytes_, base_alignment_, stats_
    fresh,          \* a second Arena, constructed when the first is reset
    granted,        \* bytes handed out by successful allocate calls since the last reset
    alloc_ret,      \* what the last Arena call was given and returned
    g_next_value_id,\* the process-wide id counter of value.cpp
    ctor,           \* per thread: the Value constructor call in progress
    sys,            \* a SystemAllocator: alignment_, track_allocations_, *tracking_
    heap,           \* the blocks malloc has handed out and their bytes
    held,           \* per thread: the pointers a caller got and has not given back
    in_call,        \* per thread: the allocator call in progress
    call_ret,       \* what the last allocator call was given and returned
    aa,             \* an ArenaAllocator: arena_, alignment_, track_allocations_, *tracking_
    issued,         \* the byte ranges (of size > 0 for the Arena) handed out since the last reset
    bufs,           \* the Buffer objects: base_, data_, size_, alignment_, owns_, use_canary_
    tensors,        \* the Tensor objects: shape_, dtype_, data_, owns_data_, strides_
    op_ret          \* what the last Shape, Tensor view or quantization call was given and returned

vars == <<nodes_, values_, graph_inputs, graph_outputs, node_inputs, node_outputs,
          node_op, node_graph, op_inputs, op_outputs, topo_index, producer,
          consumers, tensor, value_meta, wire_calls, ret,
          arena, fresh, granted, alloc_ret, g_next_value_id, ctor,
          sys, heap, held, in_call, call_ret, aa, issued, bufs, tensors, op_ret>>

graphVars == <<nodes_, values_, graph_inputs, graph_outputs, node_inputs, node_outputs,
               node_op, node_graph, op_inputs, op_outputs, topo_index, producer,
               consumers, tensor, value_meta, wire_calls, ret>>

arenaVars == <<arena, fresh, granted, alloc_ret>>

idVars == <<g_next_value_id, ctor>>

sysVars == <<sys, heap, held, in_call, call_ret>>

aaVars == <<aa, issued>>

coreVars == <<tensors, op_ret>>

memVars == <<sysVars, aaVars, bufs, coreVars>>

\* ------------------------------------------------------------------ helpers
Range(s) == {s[i] : i \in 1..Len(s)}

SeqsUpTo(S, k) == UNION {[1..m -> S] : m \in 0..k}

\* All orders in which the elements of S can be listed.
Orderings(S) == {s \in [1..Cardinality(S) -> S] : \A i, j \in 1..Cardinality(S) : s[i] = s[j] => i = j}

RECURSIVE IndexOf(_, _)
IndexOf(s, x) == IF s = <<>> THEN 0
                 ELSE IF Head(s) = x THEN 1
                 ELSE IF IndexOf(Tail(s), x) = 0 THEN 0 ELSE 1 + IndexOf(Tail(s), x)

Max(a, b) == IF a >= b THEN a ELSE b

NoRet == [call |-> "none", threw |-> FALSE, order |-> <<>>, lifetimes |-> <<>>,
          peak_bytes |-> 0, result |-> "none", log |-> <<>>, node |-> 0,
          detached |-> <<>>, touched_dead |-> {}]

NodeSet == Range(nodes_)

\* ------------------------------------------------------------------ Value
\* Value::hasConsumer
hasConsumer(cons, v, n) == n # NullPtr /\ n \in Range(cons[v])

\* addConsumer without the hasConsumer test.
addConsumer_noCheck(cons, v, n) ==
    IF n = NullPtr THEN cons ELSE [cons EXCEPT ![v] = Append(@, n)]

\* Value::addConsumer: append unless null or already present.
addConsumer(cons, v, n) ==
    IF n = NullPtr THEN cons
    ELSE IF ~hasConsumer(cons, v, n) THEN [cons EXCEPT ![v] = Append(@, n)]
    ELSE cons

\* Value::removeConsumer: std::remove + erase, every occurrence goes.
removeConsumer(cons, v, n) ==
    IF n = NullPtr \/ cons[v] = <<>> THEN cons
    ELSE [cons EXCEPT ![v] = SelectSeq(@, LAMBDA c : c # n)]

\* ------------------------------------------------------------------ Node
\* detachInputs that leaves every consumer list as it is.
detachInputs_none(cons, ins, n) == cons

\* The loop of Node::setInputs / Node::detachFromValues over the old inputs.
RECURSIVE detachInputs(_, _, _)
detachInputs(cons, ins, n) ==
    IF ins = <<>> THEN cons
    ELSE detachInputs(IF Head(ins) # NullPtr THEN removeConsumer(cons, Head(ins), n) ELSE cons,
                      Tail(ins), n)

\* Node::attachInputsToValues
RECURSIVE attachInputsToValues(_, _, _)
attachInputsToValues(cons, ins, n) ==
    IF ins = <<>> THEN cons
    ELSE attachInputsToValues(IF Head(ins) # NullPtr THEN addConsumer(cons, Head(ins), n) ELSE cons,
                              Tail(ins), n)

\* detachOutputs that leaves every producer pointer as it is.
detachOutputs_none(prod, outs, n) == prod

\* The loop of Node::setOutputs / Node::detachFromValues over the old outputs:
\* the producer pointer is cleared only where it still names this node.
RECURSIVE detachOutputs(_, _, _)
detachOutputs(prod, outs, n) ==
    IF outs = <<>> THEN prod
    ELSE detachOutputs(IF Head(outs) # NullPtr /\ prod[Head(outs)] = n
                       THEN [prod EXCEPT ![Head(outs)] = NullPtr] ELSE prod,
                       Tail(outs), n)

\* Node::attachOutputsToValues
RECURSIVE attachOutputsToValues(_, _, _)
attachOutputsToValues(prod, outs, n) ==
    IF outs = <<>> THEN prod
    ELSE attachOutputsToValues(IF Head(outs) # NullPtr
                               THEN [prod EXCEPT ![Head(outs)] = n] ELSE prod,
                               Tail(outs), n)

\* ------------------------------------------------------------------ Graph::topologicalSort
\* In-degree of node n: the number of entries of its input list that are
\* non-null and have a non-null producer (duplicates count once each).
RECURSIVE countProduced(_)
countProduced(ins) ==
    IF ins = <<>> THEN 0
    ELSE (IF Head(ins) # NullPtr /\ producer[Head(ins)] # NullPtr THEN 1 ELSE 0)
         + countProduced(Tail(ins))

indegree0 == [n \in NodeSet |-> countProduced(node_inputs[n])]

\* The inner loop over out->consumers(): st = [indeg, q].
RECURSIVE overConsumers(_, _)
overConsumers(cs, st) ==
    IF cs = <<>> THEN st
    ELSE LET c == Head(cs) IN
         IF c \notin DOMAIN st.indeg THEN overConsumers(Tail(cs), st)
         ELSE IF st.indeg[c] = 0 THEN overConsumers(Tail(cs), st)
         ELSE LET d == st.indeg[c] - 1 IN
              overConsumers(Tail(cs),
                            [indeg |-> [st.indeg EXCEPT ![c] = d],
                             q |-> IF d = 0 THEN Append(st.q, c) ELSE st.q])

\* The loop over n->outputs().
RECURSIVE overOutputs(_, _)
overOutputs(outs, st) ==
    IF outs = <<>> THEN st
    ELSE overOutputs(Tail(outs),
                     IF Head(outs) = NullPtr THEN st
                     ELSE overConsumers(consumers[Head(outs)], st))

\* The while (!q.empty()) loop of Kahn's algorithm.
RECURSIVE kahn(_, _)
kahn(st, order) ==
    IF st.q = <<>> THEN order
    ELSE LET n == Head(st.q) IN
         kahn(overOutputs(node_outputs[n], [indeg |-> st.indeg, q |-> Tail(st.q)]),
              Append(order, n))

\* The orders in which the std::unordered_map hands out the zero in-degree
\* nodes: its iteration order is unspecified.
InitialQueues == Orderings({n \in NodeSet : indegree0[n] = 0})

topoOrder(q0) == kahn([indeg |-> indegree0, q |-> q0], <<>>)

\* The topo_index annotation written at the end of topologicalSort.
annotate(order) ==
    IF Len(order) = Len(nodes_)
    THEN [n \in NodeIds |-> IF n \in Range(order) THEN IndexOf(order, n) - 1 ELSE topo_index[n]]
    ELSE [n \in NodeIds |-> IF n \in NodeSet THEN -1 ELSE topo_index[n]]

\* ------------------------------------------------------------------ memory::Arena
\* alignof(std::max_align_t) and sizeof(void*) of the build.
MaxAlignT == 16
SizeofVoidPtr == 8

\* Arena::is_power_of_two: x != 0 && (x & (x - 1)) == 0.
RECURSIVE is_power_of_two(_)
is_power_of_two(x) == x # 0 /\ (x = 1 \/ (x % 2 = 0 /\ is_power_of_two(x \div 2)))

\* align_up that leaves the value where it is.
align_up_noRound(value, alignment) == value

\* Arena::align_up for a power-of-two alignment: (value + (a - 1)) & ~(a - 1).
\* Addresses lie far below the top of the address range, so the sum does not
\* wrap.
align_up(value, alignment) == (value + (alignment - 1)) - ((value + (alignment - 1)) % alignment)

NoStats == [allocations |-> 0, peak_used_bytes |-> 0]

\* An Arena without backing buffer (the member initialisers of arena.h).
NoArena == [base_ |-> 0, capacity_bytes_ |-> 0, used_bytes_ |-> 0,
            base_alignment_ |-> MaxAlignT, stats_ |-> NoStats]

\* The addresses the system allocator can hand out.
HeapAddrs == {MaxAlignT * k : k \in 1..HeapSlots}

\* What allocate_aligned(size, alignment) can return: 0 (failure) or an address
\* that is a multiple of the alignment.
allocate_aligned(alignment) == {0} \cup {p \in HeapAddrs : p % alignment = 0}

\* Arena::Arena(capacity_bytes, base_alignment), given what allocate_aligned
\* returned.
baseAlignmentOf(base_alignment) ==
    IF base_alignment = 0 THEN MaxAlignT
    ELSE IF ~is_power_of_two(base_alignment) \/ base_alignment < SizeofVoidPtr THEN MaxAlignT
    ELSE base_alignment

ArenaCtor(capacity_bytes, base_alignment, ptr) ==
    IF capacity_bytes = 0 \/ ptr = 0
    THEN [NoArena EXCEPT !.base_alignment_ = baseAlignmentOf(base_alignment)]
    ELSE [NoArena EXCEPT !.base_alignment_ = baseAlignmentOf(base_alignment),
                         !.base_ = ptr, !.capacity_bytes_ = capacity_bytes]

\* Every Arena the constructor can produce for the arguments.
ConstructedArenas(capacity_bytes, base_alignment) ==
    {ArenaCtor(capacity_bytes, base_alignment, ptr) :
        ptr \in allocate_aligned(baseAlignmentOf(base_alignment))}

\* allocate without the test that the request fits.
allocate_noFitCheck(a, size_bytes, alignment) ==
    LET al == IF alignment = 0 THEN MaxAlignT ELSE alignment
        aligned_addr == align_up(a.base_ + a.used_bytes_, al)
        aligned_offset == aligned_addr - a.base_
    IN
    IF a.base_ = 0 \/ a.capacity_bytes_ = 0 THEN [arena |-> a, ptr |-> 0]
    ELSE IF ~is_power_of_two(al) THEN [arena |-> a, ptr |-> 0]
    ELSE IF aligned_offset > a.capacity_bytes_ THEN [arena |-> a, ptr |-> 0]
    ELSE [arena |-> [a EXCEPT !.used_bytes_ = aligned_offset + size_bytes,
                              !.stats_.allocations = @ + 1,
                              !.stats_.peak_used_bytes = Max(@, aligned_offset + size_bytes)],
          ptr |-> aligned_addr]

\* allocate that keeps the alignment padding when the request does not fit.
allocate_padsOnOom(a, size_bytes, alignment) ==
    LET al == IF alignment = 0 THEN MaxAlignT ELSE alignment
        aligned_addr == align_up(a.base_ + a.used_bytes_, al)
        aligned_offset == aligned_addr - a.base_
    IN
    IF a.base_ = 0 \/ a.capacity_bytes_ = 0 THEN [arena |-> a, ptr |-> 0]
    ELSE IF ~is_power_of_two(al) THEN [arena |-> a, ptr |-> 0]
    ELSE IF aligned_offset > a.capacity_bytes_ THEN [arena |-> a, ptr |-> 0]
    ELSE IF size_bytes > a.capacity_bytes_ - aligned_offset
         THEN [arena |-> [a EXCEPT !.used_bytes_ = aligned_offset], ptr |-> 0]
    ELSE [arena |-> [a EXCEPT !.used_bytes_ = aligned_offset + size_bytes,
                              !.stats_.allocations = @ + 1,
                              !.stats_.peak_used_bytes = Max(@, aligned_offset + size_bytes)],
          ptr |-> aligned_addr]

\* allocate that advances the bump pointer to the start of the block it
\* returns, not to its end.
allocate_forgetsSize(a, size_bytes, alignment) ==
    LET al == IF alignment = 0 THEN MaxAlignT ELSE alignment
        aligned_addr == align_up(a.base_ + a.used_bytes_, al)
        aligned_offset == aligned_addr - a.base_
    IN
    IF a.base_ = 0 \/ a.capacity_bytes_ = 0 THEN [arena |-> a, ptr |-> 0]
    ELSE IF ~is_power_of_two(al) THEN [arena |-> a, ptr |-> 0]
    ELSE IF aligned_offset > a.capacity_bytes_ THEN [arena |-> a, ptr |-> 0]
    ELSE IF size_bytes > a.capacity_bytes_ - aligned_offset THEN [arena |-> a, ptr |-> 0]
    ELSE [arena |-> [a EXCEPT !.used_bytes_ = aligned_offset,
                              !.stats_.allocations = @ + 1,
                              !.stats_.peak_used_bytes = Max(@, aligned_offset)],
          ptr |-> aligned_addr]

\* Arena::allocate: the Arena afterwards and the pointer returned (0 for
\* nullptr).
allocate(a, size_bytes, alignment) ==
    LET al == IF alignment = 0 THEN MaxAlignT ELSE alignment
        current_addr == a.base_ + a.used_bytes_
        aligned_addr == align_up(current_addr, al)
        aligned_offset == aligned_addr - a.base_
    IN
    IF a.base_ = 0 \/ a.capacity_bytes_ = 0 THEN [arena |-> a, ptr |-> 0]
    ELSE IF ~is_power_of_two(al) THEN [arena |-> a, ptr |-> 0]
    ELSE IF aligned_offset > a.capacity_bytes_ THEN [arena |-> a, ptr |-> 0]
    ELSE IF size_bytes > a.capacity_bytes_ - aligned_offset THEN [arena |-> a, ptr |-> 0]
    ELSE [arena |-> [a EXCEPT !.used_bytes_ = aligned_offset + size_bytes,
                              !.stats_.allocations = @ + 1,
                              !.stats_.peak_used_bytes = Max(@, aligned_offset + size_bytes)],
          ptr |-> aligned_addr]

\* reset that zeroes the bump pointer but keeps the stats.
reset_keepsStats(a) == [a EXCEPT !.used_bytes_ = 0]

\* Arena::reset
reset(a) == [a EXCEPT !.used_bytes_ = 0, !.stats_ = NoStats]

\* The arguments the callers pass.
Capacities == {0, 40}
BaseAlignments == {0, 32}
AllocSizes == {0, 8, 24, 100}
AllocAlignments == {0, 1, 3, 8, 32}

NoAllocRet == [call |-> "none", size_bytes |-> 0, alignment |-> 0, ptr |-> 0,
               before |-> NoArena, fresh_ptr |-> 0, fresh_before |-> <<>>]

\* Arena::allocate on the arena, and the same request on the second arena when
\* there is one.
ArenaAllocate(size_bytes, alignment) ==
    LET r == allocate(arena, size_bytes, alignment)
        f == IF fresh = <<>> THEN [arena |-> NoArena, ptr |-> 0]
             ELSE allocate(fresh[1], size_bytes, alignment)
    IN
    /\ arena.stats_.allocations < MaxAllocs
    /\ (IF fresh = <<>> THEN TRUE ELSE fresh[1].stats_.allocations < MaxAllocs)
    /\ arena' = r.arena
    /\ fresh' = IF fresh = <<>> THEN <<>> ELSE <<f.arena>>
    /\ granted' = IF r.ptr # 0 THEN granted + size_bytes ELSE granted
    /\ issued' = IF r.ptr # 0 /\ size_bytes > 0
                 THEN issued \cup {[ptr |-> r.ptr, size |-> size_bytes,
                                    n |-> arena.stats_.allocations + 1]}
                 ELSE issued
    /\ alloc_ret' = [call |-> "allocate", size_bytes |-> size_bytes, alignment |-> alignment,
                     ptr |-> r.ptr, before |-> arena, fresh_ptr |-> f.ptr,
                     fresh_before |-> fresh]
    /\ UNCHANGED <<graphVars, idVars, sysVars, aa, bufs, coreVars>>

\* Arena::reset on the arena; the caller also constructs a second arena of the
\* same capacity, with any base alignment, wherever the system allocator puts
\* its buffer.
ArenaReset ==
    /\ arena' = reset(arena)
    /\ \E ba \in BaseAlignments :
          \E c \in ConstructedArenas(arena.capacity_bytes_, ba) :
             /\ c.capacity_bytes_ = arena.capacity_bytes_
             /\ fresh' = <<c>>
    /\ granted' = 0
    /\ issued' = {}
    /\ alloc_ret' = [NoAllocRet EXCEPT !.call = "reset", !.before = arena,
                                       !.fresh_before = fresh]
    /\ UNCHANGED <<graphVars, idVars, sysVars, aa, bufs, coreVars>>

\* ------------------------------------------------------------------ core::SystemAllocator
\* normalize_alignment of allocator.cpp.
normalize_alignment(alignment) ==
    IF alignment = 0 THEN MaxAlignT
    ELSE IF ~is_power_of_two(alignment) \/ alignment < SizeofVoidPtr THEN MaxAlignT
    ELSE alignment

\* A default-constructed AllocationStats.
NoAllocationStats == [allocations |-> 0, frees |-> 0, bytes_allocated |-> 0, bytes_freed |-> 0,
                      live_allocations |-> 0, live_bytes |-> 0, peak_live_bytes |-> 0]

update_peak(s) == [s EXCEPT !.peak_live_bytes = Max(@, s.live_bytes)]

\* An empty std::unordered_map<const void*, std::size_t>.
NoLiveSizes == [q \in {} |-> 0]

\* TrackingState: the map of live blocks and the counters. (Who holds its
\* mutex is read off the calls in progress.)
NoTracking == [live_sizes |-> NoLiveSizes, stats |-> NoAllocationStats]

\* SystemAllocator::SystemAllocator(config).
SystemAllocatorCtor(config) ==
    [alignment_ |-> normalize_alignment(config.alignment),
     track_allocations_ |-> config.track_allocations,
     tracking_ |-> NoTracking]

\* The addresses malloc can hand out, and the bytes of a block: 0 is a byte
\* nobody has written, and the caller writes byte i of its block as i.
SysAddrs == {MaxAlignT * k : k \in 1..SysSlots}
Junk == 0
FreshBlock(size) == [i \in 1..size |-> Junk]
WrittenBlock(size) == [i \in 1..size |-> i]

\* What allocate_aligned_system(size, alignment) can return on heap h: nullptr
\* or the address of a block that is not in use and is a multiple of the
\* alignment.
allocate_aligned_system(h, alignment) ==
    {0} \cup {q \in SysAddrs \ DOMAIN h : q % alignment = 0}

\* The heap after malloc handed out ptr, and after free(ptr).
heapWith(h, ptr, size) == [q \in DOMAIN h \cup {ptr} |-> IF q = ptr THEN FreshBlock(size) ELSE h[q]]
heapWithout(h, ptr) == [q \in DOMAIN h \ {ptr} |-> h[q]]

\* The tracking block of allocate_aligned (under the mutex).
trackAllocation(tr, ptr, size_bytes) ==
    [live_sizes |-> [q \in DOMAIN tr.live_sizes \cup {ptr} |->
                        IF q = ptr THEN size_bytes ELSE tr.live_sizes[q]],
     stats |-> update_peak([tr.stats EXCEPT !.allocations = @ + 1,
                                            !.bytes_allocated = @ + size_bytes,
                                            !.live_allocations = @ + 1,
                                            !.live_bytes = @ + size_bytes])]

\* Tracking of a free that keeps the block in the map.
trackFree_keepsEntry(tr, ptr) ==
    [tr EXCEPT !.stats.frees = @ + 1]

\* The tracking block of deallocate (under the mutex).
trackFree(tr, ptr) ==
    IF ptr \in DOMAIN tr.live_sizes
    THEN LET size == tr.live_sizes[ptr] IN
         [live_sizes |-> [q \in DOMAIN tr.live_sizes \ {ptr} |-> tr.live_sizes[q]],
          stats |-> [tr.stats EXCEPT !.frees = @ + 1,
                                     !.bytes_freed = @ + size,
                                     !.live_allocations = IF @ > 0 THEN @ - 1 ELSE @,
                                     !.live_bytes = IF @ >= size THEN @ - size ELSE 0]]
    ELSE [tr EXCEPT !.stats.frees = @ + 1]

\* SystemAllocator::allocate_aligned, given what posix_memalign returned: the
\* allocator and the heap afterwards, and the pointer returned.
SystemAllocator_allocate_aligned(a, h, size_bytes, alignment_bytes, ptr) ==
    IF size_bytes = 0 \/ ptr = 0 THEN [alloc |-> a, heap |-> h, ptr |-> 0]
    ELSE [alloc |-> IF a.track_allocations_
                    THEN [a EXCEPT !.tracking_ = trackAllocation(@, ptr, size_bytes)]
                    ELSE a,
          heap |-> heapWith(h, ptr, size_bytes),
          ptr |-> ptr]

\* The alignment allocate_aligned asks posix_memalign for.
alignmentFor(a, alignment_bytes) ==
    normalize_alignment(IF alignment_bytes = 0 THEN a.alignment_ ELSE alignment_bytes)

\* SystemAllocator::allocate(int64_t).
SystemAllocator_allocate(a, h, size_bytes, ptr) ==
    IF size_bytes <= 0 THEN [alloc |-> a, heap |-> h, ptr |-> 0]
    ELSE SystemAllocator_allocate_aligned(a, h, size_bytes, a.alignment_, ptr)

\* SystemAllocator::deallocate.
SystemAllocator_deallocate(a, h, ptr) ==
    IF ptr = 0 THEN [alloc |-> a, heap |-> h]
    ELSE [alloc |-> IF a.track_allocations_
                    THEN [a EXCEPT !.tracking_ = trackFree(@, ptr)]
                    ELSE a,
          heap |-> heapWithout(h, ptr)]

\* std::memcpy(new_ptr, ptr, copy_n) on heap h.
memcpy(h, new_ptr, ptr, copy_n) ==
    [h EXCEPT ![new_ptr] = [i \in DOMAIN h[new_ptr] |-> IF i <= copy_n THEN h[ptr][i] ELSE @[i]]]

Min(a, b) == IF a <= b THEN a ELSE b

\* SystemAllocator::reallocate, given what posix_memalign returned.
SystemAllocator_reallocate(a, h, ptr, new_size_bytes, new_ptr) ==
    LET old_size == IF ptr # 0 /\ a.track_allocations_ /\ ptr \in DOMAIN a.tracking_.live_sizes
                    THEN a.tracking_.live_sizes[ptr] ELSE 0
        got == SystemAllocator_allocate(a, h, new_size_bytes, new_ptr)
        copied == IF ptr # 0 /\ old_size > 0
                  THEN memcpy(got.heap, got.ptr, ptr, Min(old_size, new_size_bytes))
                  ELSE got.heap
        freed == SystemAllocator_deallocate(got.alloc, copied, ptr)
    IN
    IF new_size_bytes <= 0
    THEN [alloc |-> SystemAllocator_deallocate(a, h, ptr).alloc,
          heap |-> SystemAllocator_deallocate(a, h, ptr).heap, ptr |-> 0]
    ELSE IF got.ptr = 0 THEN [alloc |-> a, heap |-> h, ptr |-> 0]
    ELSE [alloc |-> freed.alloc, heap |-> freed.heap, ptr |-> got.ptr]

\* owns that looks in the map whether tracking is on or not.
SystemAllocator_owns_mapOnly(a, ptr) ==
    ptr # 0 /\ ptr \in DOMAIN a.tracking_.live_sizes

\* SystemAllocator::owns.
SystemAllocator_owns(a, ptr) ==
    IF ptr = 0 THEN FALSE
    ELSE IF a.track_allocations_ THEN ptr \in DOMAIN a.tracking_.live_sizes
    ELSE TRUE

\* SystemAllocator::stats.
SystemAllocator_stats(a) ==
    IF ~a.track_allocations_ THEN NoAllocationStats ELSE a.tracking_.stats

\* ------------------------------------------------------------------ core::ArenaAllocator
\* Arena::owns.
owns(a, ptr) ==
    IF a.base_ = 0 \/ ptr = 0 \/ a.capacity_bytes_ = 0 THEN FALSE
    ELSE ptr >= a.base_ /\ ptr < a.base_ + a.capacity_bytes_

\* The member initialisers of ArenaAllocator, around an Arena without buffer.
NoArenaAllocator == [arena_ |-> NoArena, alignment_ |-> MaxAlignT, track_allocations_ |-> FALSE,
                     tracking_ |-> NoTracking]

\* ArenaAllocator::ArenaAllocator, given what allocate_aligned returned to the
\* Arena constructor.
ArenaAllocatorCtor(arena_capacity_bytes, arena_base_alignment, config, ptr) ==
    [arena_ |-> ArenaCtor(arena_capacity_bytes, arena_base_alignment, ptr),
     alignment_ |-> normalize_alignment(config.alignment),
     track_allocations_ |-> config.track_allocations,
     tracking_ |-> NoTracking]

\* ArenaAllocator::allocate_aligned. (Its tracking block is the one of
\* SystemAllocator::allocate_aligned, line for line.)
ArenaAllocator_allocate_aligned(a, size_bytes, alignment_bytes) ==
    LET r == allocate(a.arena_, size_bytes, alignmentFor(a, alignment_bytes)) IN
    IF size_bytes = 0 THEN [alloc |-> a, ptr |-> 0]
    ELSE IF r.ptr = 0 THEN [alloc |-> [a EXCEPT !.arena_ = r.arena], ptr |-> 0]
    ELSE [alloc |-> [a EXCEPT !.arena_ = r.arena,
                              !.tracking_ = IF a.track_allocations_
                                            THEN trackAllocation(@, r.ptr, size_bytes) ELSE @],
          ptr |-> r.ptr]

\* ArenaAllocator::allocate(int64_t).
ArenaAllocator_allocate(a, size_bytes) ==
    IF size_bytes <= 0 THEN [alloc |-> a, ptr |-> 0]
    ELSE ArenaAllocator_allocate_aligned(a, size_bytes, a.alignment_)

\* deallocate that hands the block back when it is the last one of the arena.
ArenaAllocator_deallocate_rewinds(a, ptr) ==
    IF ptr = 0 THEN a
    ELSE [a EXCEPT !.arena_.used_bytes_ = IF ptr >= a.arena_.base_ /\ ptr - a.arena_.base_ < @
                                          THEN ptr - a.arena_.base_ ELSE @,
                   !.tracking_ = IF a.track_allocations_ THEN trackFree(@, ptr) ELSE @]

\* ArenaAllocator::deallocate. (Its tracking block is the one of
\* SystemAllocator::deallocate, line for line.)
ArenaAllocator_deallocate(a, ptr) ==
    IF ptr = 0 THEN a
    ELSE IF a.track_allocations_ THEN [a EXCEPT !.tracking_ = trackFree(@, ptr)]
    ELSE a

\* ArenaAllocator::owns.
ArenaAllocator_owns(a, ptr) ==
    IF ptr = 0 THEN FALSE
    ELSE IF a.track_allocations_ THEN ptr \in DOMAIN a.tracking_.live_sizes
    ELSE owns(a.arena_, ptr)

\* reset that also zeroes the cumulative counters.
ArenaAllocator_reset_zeroesStats(a) ==
    [a EXCEPT !.arena_ = reset(@),
              !.tracking_ = IF a.track_allocations_ THEN NoTracking ELSE @]

\* ArenaAllocator::reset.
ArenaAllocator_reset(a) ==
    [a EXCEPT !.arena_ = reset(@),
              !.tracking_ = IF a.track_allocations_
                            THEN [live_sizes |-> NoLiveSizes,
                                  stats |-> [@.stats EXCEPT !.live_allocations = 0, !.live_bytes = 0]]
                            ELSE @]

\* ArenaAllocator::stats.
ArenaAllocator_stats(a) ==
    IF ~a.track_allocations_ THEN NoAllocationStats ELSE a.tracking_.stats

\* ArenaAllocator::reset_stats.
ArenaAllocator_reset_stats(a) ==
    IF ~a.track_allocations_ THEN a ELSE [a EXCEPT !.tracking_.stats = NoAllocationStats]

\* ------------------------------------------------------------------ memory::Buffer
\* sizeof(kCanaryValue) and the bytes of kCanaryValue = 0xDEADBEEF in memory.
kCanaryBytes == 4
kCanaryValue == <<239, 190, 173, 222>>

\* A default-constructed Buffer (the member initialisers of buffer.h).
NoBuffer == [base_ |-> 0, data_ |-> 0, size_ |-> 0, alignment_ |-> MaxAlignT,
             owns_ |-> FALSE, use_canary_ |-> FALSE]

\* What posix_memalign(&ptr, alignment, size) can give on heap h: it refuses
\* an alignment that is not a power of two or not a multiple of sizeof(void*).
posix_memalign(h, alignment) ==
    IF ~is_power_of_two(alignment) \/ alignment % SizeofVoidPtr # 0 THEN {0}
    ELSE allocate_aligned_system(h, alignment)

\* Buffer::deallocate: the Buffer and the heap afterwards. (The canaries are
\* wiped in the block that free_aligned then releases.)
Buffer_deallocate(buf, h) ==
    IF buf.base_ = 0 \/ ~buf.owns_
    THEN [buf |-> [buf EXCEPT !.base_ = 0, !.data_ = 0, !.size_ = 0], heap |-> h]
    ELSE [buf |-> [buf EXCEPT !.base_ = 0, !.data_ = 0, !.size_ = 0, !.owns_ = FALSE],
          heap |-> heapWithout(h, buf.base_)]

\* The leading `if (owns_) deallocate();` of allocate, the assignments and the
\* destructor.
dropIfOwned(buf, h) == IF buf.owns_ THEN Buffer_deallocate(buf, h) ELSE [buf |-> buf, heap |-> h]

\* The block at base with the canary written before and after size data bytes.
withCanaries(h, base, size) ==
    [h EXCEPT ![base] = [i \in DOMAIN @ |->
                            IF i <= kCanaryBytes THEN kCanaryValue[i]
                            ELSE IF i > kCanaryBytes + size THEN kCanaryValue[i - kCanaryBytes - size]
                            ELSE @[i]]]

\* Buffer::allocate(size, alignment, allocator, use_canary) on a Buffer that
\* has passed the leading `if (owns_) deallocate();`, given the pointer got
\* that the allocator ("sys", the SystemAllocator) or posix_memalign ("null")
\* returned.
Buffer_allocate(buf, a, h, size, alignment, allocator, use_canary, got) ==
    LET total_size == IF use_canary THEN size + 2 * kCanaryBytes ELSE size
        r == IF allocator = "sys" THEN SystemAllocator_allocate(a, h, total_size, got)
             ELSE [alloc |-> a, heap |-> IF got # 0 THEN heapWith(h, got, total_size) ELSE h,
                   ptr |-> got]
        set == [buf EXCEPT !.alignment_ = alignment, !.size_ = size, !.use_canary_ = use_canary,
                           !.base_ = r.ptr]
    IN
    IF r.ptr = 0
    THEN [buf |-> [set EXCEPT !.data_ = 0, !.size_ = 0], alloc |-> r.alloc, heap |-> r.heap,
          ok |-> FALSE]
    ELSE [buf |-> [set EXCEPT !.owns_ = TRUE,
                              !.data_ = IF use_canary THEN r.ptr + kCanaryBytes ELSE r.ptr],
          alloc |-> r.alloc,
          heap |-> IF use_canary THEN withCanaries(r.heap, r.ptr, size) ELSE r.heap,
          ok |-> TRUE]

\* The pointers the allocation inside Buffer::allocate can return.
bufferGets(a, h, alignment, allocator) ==
    IF allocator = "sys" THEN allocate_aligned_system(h, alignmentFor(a, a.alignment_))
    ELSE posix_memalign(h, alignment)

\* std::memcpy(data_, other.data_, other.size_) between two Buffers' blocks.
copyData(h, dst, src) ==
    LET to == dst.data_ - dst.base_
        from == src.data_ - src.base_
    IN [h EXCEPT ![dst.base_] = [i \in DOMAIN @ |->
                                    IF i > to /\ i <= to + src.size_
                                    THEN h[src.base_][from + (i - to)] ELSE @[i]]]

\* The body shared by the copy constructor and copy assignment (lines 45-50
\* and 58-63), on a Buffer that has passed the leading deallocate.
Buffer_copyFrom(buf, a, h, other, got) ==
    LET r == Buffer_allocate(buf, a, h, other.size_, other.alignment_, "null", other.use_canary_, got) IN
    IF other.data_ # 0 /\ other.size_ > 0
    THEN [buf |-> r.buf, alloc |-> r.alloc,
          heap |-> IF r.buf.data_ # 0 THEN copyData(r.heap, r.buf, other) ELSE r.heap]
    ELSE [buf |-> buf, alloc |-> a, heap |-> h]

\* What the move constructor and move assignment leave in the source.
movedFrom(other) == [other EXCEPT !.base_ = 0, !.data_ = 0, !.size_ = 0, !.owns_ = FALSE,
                                  !.use_canary_ = FALSE]

\* ------------------------------------------------------------------ core::Shape
\* A Shape is its dimensions_, a sequence of integers. What a call returns is
\* [threw, shape]: threw names the exception type, "none" when it returned.
Returns(shape) == [threw |-> "none", shape |-> shape]
Throws(exception) == [threw |-> exception, shape |-> <<>>]

\* Shape::num_elements: the product of the dimensions, 1 for the empty shape.
RECURSIVE num_elements(_)
num_elements(dims) == IF dims = <<>> THEN 1 ELSE Head(dims) * num_elements(Tail(dims))

\* dims without the entry at (0-based) position axis, and with a 1 put in
\* front of it.
erased(dims, axis) == [i \in 1..(Len(dims) - 1) |-> IF i <= axis THEN dims[i] ELSE dims[i + 1]]
inserted(dims, axis) ==
    [i \in 1..(Len(dims) + 1) |-> IF i <= axis THEN dims[i] ELSE IF i = axis + 1 THEN 1 ELSE dims[i - 1]]

\* The dimensions that are not 1, in order.
RECURSIVE withoutOnes(_)
withoutOnes(dims) ==
    IF dims = <<>> THEN <<>>
    ELSE IF Head(dims) # 1 THEN <<Head(dims)>> \o withoutOnes(Tail(dims))
    ELSE withoutOnes(Tail(dims))

\* Shape::squeeze(axis).
Shape_squeeze(dims, axis) ==
    LET ax == IF axis < 0 THEN axis + Len(dims) ELSE axis IN
    IF axis = -1 THEN Returns(withoutOnes(dims))
    ELSE IF ax < 0 \/ ax >= Len(dims) THEN Throws("std::out_of_range")
    ELSE IF dims[ax + 1] # 1 THEN Throws("std::invalid_argument")
    ELSE Returns(erased(dims, ax))

\* Shape::unsqueeze(axis).
Shape_unsqueeze(dims, axis) ==
    LET ax == IF axis < 0 THEN axis + Len(dims) + 1 ELSE axis IN
    IF ax < 0 \/ ax > Len(dims) THEN Throws("std::out_of_range")
    ELSE Returns(inserted(dims, ax))

\* broadcast that keeps the first shape's dimension on every axis.
Shape_broadcast_keepsFirst(dims1, dims2) ==
    LET result_rank == Max(Len(dims1), Len(dims2))
        offset1 == result_rank - Len(dims1)
        offset2 == result_rank - Len(dims2)
        dim1(i) == IF i > offset1 THEN dims1[i - offset1] ELSE 1
        dim2(i) == IF i > offset2 THEN dims2[i - offset2] ELSE 1
    IN
    IF \E i \in 1..result_rank : dim1(i) # dim2(i) /\ dim1(i) # 1 /\ dim2(i) # 1
    THEN Throws("std::invalid_argument")
    ELSE Returns([i \in 1..result_rank |-> dim1(i)])

\* Shape::broadcast(shape1, shape2).
Shape_broadcast(dims1, dims2) ==
    LET result_rank == Max(Len(dims1), Len(dims2))
        offset1 == result_rank - Len(dims1)
        offset2 == result_rank - Len(dims2)
        dim1(i) == IF i > offset1 THEN dims1[i - offset1] ELSE 1
        dim2(i) == IF i > offset2 THEN dims2[i - offset2] ELSE 1
    IN
    IF \E i \in 1..result_rank : dim1(i) # dim2(i) /\ dim1(i) # 1 /\ dim2(i) # 1
    THEN Throws("std::invalid_argument")
    ELSE Returns([i \in 1..result_rank |-> Max(dim1(i), dim2(i))])

\* ------------------------------------------------------------------ core::Tensor
\* A default-constructed Tensor (the member initialisers of tensor.h).
NoTensor == [shape_ |-> <<>>, dtype_ |-> "UNKNOWN", data_ |-> 0, owns_data_ |-> FALSE,
             strides_ |-> <<>>]

\* Tensor::compute_strides: row-major strides in bytes.
compute_strides(dims, dtype) ==
    [i \in 1..Len(dims) |-> bytes_per_element(dtype) * num_elements(SubSeq(dims, i + 1, Len(dims)))]

\* Tensor(shape, dtype, data, owns_data): a Tensor around the caller's memory.
TensorWrap(dims, dtype, data, owns_data) ==
    [shape_ |-> dims, dtype_ |-> dtype, data_ |-> data, owns_data_ |-> owns_data,
     strides_ |-> compute_strides(dims, dtype)]

\* Tensor::stride(axis), axis counted from 0.
Tensor_stride(t, axis) == IF axis < Len(t.strides_) THEN t.strides_[axis + 1] ELSE 0

\* The loop of is_contiguous from axis i (counted from 0) down to axis 0.
RECURSIVE stridesMatch(_, _, _)
stridesMatch(t, i, expected_stride) ==
    IF i < 0 THEN TRUE
    ELSE IF Tensor_stride(t, i) # expected_stride THEN FALSE
    ELSE stridesMatch(t, i - 1, expected_stride * t.shape_[i + 1])

\* Tensor::is_contiguous.
is_contiguous(t) ==
    IF Len(t.shape_) = 0 THEN TRUE
    ELSE IF num_elements(t.shape_) = 0 THEN TRUE
    ELSE stridesMatch(t, Len(t.shape_) - 1, bytes_per_element(t.dtype_))

\* What a view call returns: [threw, view].
View(t) == [threw |-> "none", view |-> t]
NoView(exception) == [threw |-> exception, view |-> NoTensor]

\* The bounds of ranges[i] after `if (start < 0) start += dim_size;` and the
\* same for end.
startOf(t, ranges, i) == IF ranges[i][1] < 0 THEN ranges[i][1] + t.shape_[i] ELSE ranges[i][1]
endOf(t, ranges, i) == IF ranges[i][2] < 0 THEN ranges[i][2] + t.shape_[i] ELSE ranges[i][2]

\* The byte offset slice adds up over the axes i..rank.
RECURSIVE sliceOffset(_, _, _)
sliceOffset(t, ranges, i) ==
    IF i > Len(t.shape_) THEN 0
    ELSE startOf(t, ranges, i) * Tensor_stride(t, i - 1) + sliceOffset(t, ranges, i + 1)

\* slice that gives the view the row-major strides of its own shape.
Tensor_slice_rowMajor(t, ranges) ==
    IF Len(ranges) # Len(t.shape_) THEN NoView("std::invalid_argument")
    ELSE IF \E i \in 1..Len(t.shape_) :
               \/ startOf(t, ranges, i) < 0 \/ startOf(t, ranges, i) > t.shape_[i]
               \/ endOf(t, ranges, i) < 0 \/ endOf(t, ranges, i) > t.shape_[i]
               \/ startOf(t, ranges, i) > endOf(t, ranges, i)
    THEN NoView("std::out_of_range")
    ELSE View(TensorWrap([i \in 1..Len(t.shape_) |-> endOf(t, ranges, i) - startOf(t, ranges, i)],
                         t.dtype_, t.data_ + sliceOffset(t, ranges, 1), FALSE))

\* Tensor::slice(ranges); a range is <<start, end>>.
Tensor_slice(t, ranges) ==
    IF Len(ranges) # Len(t.shape_) THEN NoView("std::invalid_argument")
    ELSE IF \E i \in 1..Len(t.shape_) :
               \/ startOf(t, ranges, i) < 0 \/ startOf(t, ranges, i) > t.shape_[i]
               \/ endOf(t, ranges, i) < 0 \/ endOf(t, ranges, i) > t.shape_[i]
               \/ startOf(t, ranges, i) > endOf(t, ranges, i)
    THEN NoView("std::out_of_range")
    ELSE View([TensorWrap([i \in 1..Len(t.shape_) |-> endOf(t, ranges, i) - startOf(t, ranges, i)],
                          t.dtype_, t.data_ + sliceOffset(t, ranges, 1), FALSE)
                  EXCEPT !.strides_ = t.strides_])

\* transpose that permutes the dimensions and leaves the view the row-major
\* strides of its new shape.
Tensor_transpose_rowMajor(t, axes) ==
    IF Len(axes) # Len(t.shape_) THEN NoView("std::invalid_argument")
    ELSE IF \E i \in 1..Len(axes) :
               \/ axes[i] < 0 \/ axes[i] >= Len(t.shape_)
               \/ \E j \in 1..(i - 1) : axes[j] = axes[i]
    THEN NoView("std::invalid_argument")
    ELSE View(TensorWrap([i \in 1..Len(axes) |-> t.shape_[axes[i] + 1]], t.dtype_, t.data_, FALSE))

\* Tensor::transpose(axes); axes count from 0.
Tensor_transpose(t, axes) ==
    IF Len(axes) # Len(t.shape_) THEN NoView("std::invalid_argument")
    ELSE IF \E i \in 1..Len(axes) :
               \/ axes[i] < 0 \/ axes[i] >= Len(t.shape_)
               \/ \E j \in 1..(i - 1) : axes[j] = axes[i]
    THEN NoView("std::invalid_argument")
    ELSE View([TensorWrap([i \in 1..Len(axes) |-> t.shape_[axes[i] + 1]], t.dtype_, t.data_, FALSE)
                  EXCEPT !.strides_ = [i \in 1..Len(axes) |-> Tensor_stride(t, axes[i])]])

\* Tensor::byte_size.
byte_size(t) == num_elements(t.shape_) * bytes_per_element(t.dtype_)

\* Tensor(shape, dtype, allocator) with allocator "sys" (a SystemAllocator) or
\* "null", given the pointer got that the allocator returns: the Tensor, the
\* allocator and the heap afterwards.
Tensor_ctor(a, h, dims, dtype, allocator, got) ==
    LET shaped == TensorWrap(dims, dtype, 0, FALSE) IN
    IF allocator = "sys" /\ num_elements(dims) > 0
    THEN LET r == SystemAllocator_allocate(a, h, byte_size(shaped), got) IN
         [t |-> [shaped EXCEPT !.data_ = r.ptr, !.owns_data_ = (r.ptr # 0)],
          alloc |-> r.alloc, heap |-> r.heap]
    ELSE [t |-> shaped, alloc |-> a, heap |-> h]

\* Tensor::deallocate_internal: delete[] on data_; operator delete[] hands the
\* block to free.
deallocate_internal(t, h) == IF t.data_ # 0 THEN heapWithout(h, t.data_) ELSE h

\* Tensor::deallocate: the Tensor and the heap afterwards.
Tensor_deallocate(t, h) ==
    IF t.owns_data_ /\ t.data_ # 0
    THEN [t |-> [t EXCEPT !.data_ = 0, !.owns_data_ = FALSE], heap |-> deallocate_internal(t, h)]
    ELSE [t |-> t, heap |-> h]

\* Tensor::~Tensor: the heap afterwards.
Tensor_dtor(t, h) == IF t.owns_data_ /\ t.data_ # 0 THEN deallocate_internal(t, h) ELSE h

\* Tensor::set_data(new_data, take_ownership).
Tensor_set_data(t, h, new_data, take_ownership) ==
    [t |-> [t EXCEPT !.data_ = new_data, !.owns_data_ = take_ownership],
     heap |-> IF t.owns_data_ /\ t.data_ # 0 THEN deallocate_internal(t, h) ELSE h]

\* What the copy constructor and copy assignment put into the destination.
Tensor_copyOf(other) == [other EXCEPT !.owns_data_ = FALSE]

\* A move that leaves the source its data pointer and its ownership.
Tensor_movedFrom_keepsOwner(other) == [other EXCEPT !.shape_ = <<>>, !.strides_ = <<>>]

\* What the move constructor and move assignment leave in the source (a
\* moved-from std::vector is left empty).
Tensor_movedFrom(other) ==
    [other EXCEPT !.shape_ = <<>>, !.strides_ = <<>>, !.data_ = 0, !.owns_data_ = FALSE]

\* ------------------------------------------------------------------ quantization
\* A float is the number of steps of one common unit it holds, so value / scale
\* is the fraction value over scale and int8 * scale is again a number of steps.

\* clamp(value, min_val, max_val) of dtype.cpp.
clamp(value, min_val, max_val) == Max(min_val, Min(value, max_val))

\* std::round(num / den) for den > 0: the nearest integer, halves away from zero.
std_round(num, den) ==
    IF num >= 0 THEN (2 * num + den) \div (2 * den) ELSE -((2 * (-num) + den) \div (2 * den))

\* The conversion of num / den to an integer, towards zero.
std_trunc(num, den) == IF num >= 0 THEN num \div den ELSE -((-num) \div den)

\* quantize that cuts the fraction of value / scale off.
quantize_symmetric_int8_truncates(value, scale) ==
    IF scale <= 0 THEN [threw |-> "std::invalid_argument", q |-> 0]
    ELSE [threw |-> "none", q |-> clamp(std_trunc(value, scale), -128, 127)]

\* quantize_symmetric_int8(value, scale).
quantize_symmetric_int8(value, scale) ==
    IF scale <= 0 THEN [threw |-> "std::invalid_argument", q |-> 0]
    ELSE [threw |-> "none", q |-> clamp(std_round(value, scale), -128, 127)]

\* dequantize_symmetric_int8(value, scale).
dequantize_symmetric_int8(value, scale) == value * scale

\* ------------------------------------------------------------------ Value ids
Threads == 1..MaxThreads

\* A thread's constructor call: where it is (idle, about to call nextId, or
\* initialising the other members), the id it drew, the ids of the Values whose
\* construction had completed when the call began, and the Values the thread
\* has constructed so far.
IdleCtor == [pc |-> "idle", id_ |-> 0, after |-> {}, made |-> <<>>]

\* fetch_add that returns the counter but does not store the sum.
fetch_add_noStore(counter, k) == [value |-> counter, next |-> counter]

\* std::atomic<Value::Id>::fetch_add(k): one indivisible read-modify-write that
\* returns the old value. (The 64-bit counter does not wrap within any number
\* of constructions a process can make.)
fetch_add(counter, k) == [value |-> counter, next |-> counter + k]

\* The ids of the Values whose construction has completed.
CompletedIds == UNION {{ctor[t].made[i].id_ : i \in 1..Len(ctor[t].made)} : t \in Threads}

\* A thread enters a Value constructor.
ValueCtorBegin(t) ==
    /\ ctor[t].pc = "idle"
    /\ g_next_value_id + Cardinality({u \in Threads : ctor[u].pc = "nextId"}) <= MaxIds
    /\ ctor' = [ctor EXCEPT ![t].pc = "nextId", ![t].after = CompletedIds]
    /\ UNCHANGED <<graphVars, arenaVars, memVars, g_next_value_id>>

\* Value::nextId, called from the member initialiser id_(nextId()).
ValueNextId(t) ==
    /\ ctor[t].pc = "nextId"
    /\ LET r == fetch_add(g_next_value_id, 1) IN
       /\ g_next_value_id' = r.next
       /\ ctor' = [ctor EXCEPT ![t].pc = "members", ![t].id_ = r.value]
    /\ UNCHANGED <<graphVars, arenaVars, memVars>>

\* The constructor returns: the Value exists.
ValueCtorEnd(t) ==
    /\ ctor[t].pc = "members"
    /\ ctor' = [ctor EXCEPT ![t].pc = "idle",
                            ![t].made = Append(@, [id_ |-> ctor[t].id_, after |-> ctor[t].after])]
    /\ UNCHANGED <<graphVars, arenaVars, memVars, g_next_value_id>>

\* ------------------------------------------------------------------ allocator calls
NoBlocks == [q \in {} |-> <<>>]

\* A thread's allocator call: where it is, the pointer and size it works on,
\* the copy of the tracking state it read under the mutex, the number of
\* allocate calls the thread has completed, and the Arena members it read.
IdleCall == [pc |-> "idle", ptr |-> 0, size |-> 0, seen |-> NoTracking, calls |-> 0,
             arena_seen |-> NoArena]

NoSysRet == [call |-> "none", arg |-> 0, size |-> 0, ptr |-> 0, result |-> FALSE,
             successes |-> 0]

\* No allocator call has been made and nothing is on the heap.
NoCalls ==
    /\ heap = NoBlocks
    /\ held = [t \in Threads |-> {}]
    /\ in_call = [t \in Threads |-> IdleCall]
    /\ call_ret = NoSysRet

\* No ArenaAllocator has been constructed.
NoArenaAllocatorYet ==
    /\ aa = NoArenaAllocator
    /\ issued = {}

\* No SystemAllocator has been constructed.
NoSystemAllocatorYet ==
    sys = SystemAllocatorCtor([alignment |-> 0, track_allocations |-> FALSE])

\* The Buffer objects; none has been constructed.
BufIds == 1..MaxBuffers
NoBuffersYet == bufs = [b \in BufIds |-> [alive |-> FALSE, obj |-> NoBuffer]]

\* The Tensor objects; none has been constructed, and no Shape, view or
\* quantization call has been made.
TensorIds == 1..MaxTensors
NoOpRet == [call |-> "none", args |-> <<>>, threw |-> "none", result |-> <<>>, of |-> <<>>]
NoTensorsYet ==
    /\ tensors = [i \in TensorIds |-> [alive |-> FALSE, obj |-> NoTensor]]
    /\ op_ret = NoOpRet

\* No allocator is in use.
MemInit ==
    /\ NoSystemAllocatorYet
    /\ NoArenaAllocatorYet
    /\ NoCalls
    /\ NoBuffersYet
    /\ NoTensorsYet

\* ------------------------------------------------------------------ actions: construction
GraphInit ==
    /\ nodes_ = <<>>
    /\ values_ = <<>>
    /\ graph_inputs = <<>>
    /\ graph_outputs = <<>>
    /\ node_inputs = [n \in NodeIds |-> <<>>]
    /\ node_outputs = [n \in NodeIds |-> <<>>]
    /\ node_op = [n \in NodeIds |-> "null"]
    /\ node_graph = [n \in NodeIds |-> "none"]
    /\ op_inputs = [n \in NodeIds |-> <<>>]
    /\ op_outputs = [n \in NodeIds |-> <<>>]
    /\ topo_index = [n \in NodeIds |-> -1]
    /\ producer = [v \in ValueIds |-> NullPtr]
    /\ consumers = [v \in ValueIds |-> <<>>]
    /\ tensor = [v \in ValueIds |-> "null"]
    /\ value_meta = [v \in ValueIds |-> NoMeta]
    /\ wire_calls = 0
    /\ ret = NoRet

IdsInit ==
    /\ g_next_value_id = 1
    /\ ctor = [t \in Threads |-> IdleCtor]

\* An empty graph; no arena has been constructed.
Init ==
    /\ GraphInit
    /\ IdsInit
    /\ arena = NoArena
    /\ fresh = <<>>
    /\ granted = 0
    /\ alloc_ret = NoAllocRet
    /\ MemInit

\* No Arena has been constructed.
NoArenaYet ==
    /\ arena = NoArena
    /\ fresh = <<>>
    /\ granted = 0
    /\ alloc_ret = NoAllocRet

\* An arena has been constructed.
ArenaInit ==
    /\ GraphInit
    /\ IdsInit
    /\ MemInit
    /\ \E capacity_bytes \in Capacities, base_alignment \in BaseAlignments :
          arena \in ConstructedArenas(capacity_bytes, base_alignment)
    /\ fresh = <<>>
    /\ granted = 0
    /\ alloc_ret = NoAllocRet

\* Graph::createValue
createValue(meta) ==
    /\ Len(values_) < MaxValues
    /\ values_' = Append(values_, Len(values_) + 1)
    /\ value_meta' = [value_meta EXCEPT ![Len(values_) + 1] = meta]
    /\ ret' = NoRet
    /\ UNCHANGED <<arenaVars, idVars, memVars, nodes_, graph_inputs, graph_outputs, node_inputs, node_outputs,
                   node_op, node_graph, op_inputs, op_outputs, topo_index, producer, consumers, tensor, wire_calls>>

\* Graph::addNode(op, name): a fresh Node, parent this graph, nothing wired.
addNode(op) ==
    /\ Len(nodes_) < MaxNodes
    /\ LET n == CHOOSE m \in NodeIds \ NodeSet : \A k \in NodeIds \ NodeSet : m <= k IN
       /\ nodes_' = Append(nodes_, n)
       /\ node_op' = [node_op EXCEPT ![n] = op]
       /\ node_graph' = [node_graph EXCEPT ![n] = "this"]
    /\ ret' = NoRet
    /\ UNCHANGED <<arenaVars, idVars, memVars, values_, graph_inputs, graph_outputs, node_inputs, node_outputs,
                   op_inputs, op_outputs, topo_index, producer, consumers, tensor,
                   value_meta, wire_calls>>

\* ------------------------------------------------------------------ actions: Node wiring
\* Node::setInputs
NodeSetInputs(n, ins) ==
    /\ n \in NodeSet
    /\ wire_calls < MaxWireCalls
    /\ consumers' = attachInputsToValues(detachInputs(consumers, node_inputs[n], n), ins, n)
    /\ node_inputs' = [node_inputs EXCEPT ![n] = ins]
    /\ wire_calls' = wire_calls + 1
    /\ ret' = NoRet
    /\ UNCHANGED <<arenaVars, idVars, memVars, nodes_, values_, graph_inputs, graph_outputs, node_outputs,
                   node_op, node_graph, op_inputs, op_outputs, topo_index, producer, tensor, value_meta>>

\* Node::setOutputs
NodeSetOutputs(n, outs) ==
    /\ n \in NodeSet
    /\ wire_calls < MaxWireCalls
    /\ producer' = attachOutputsToValues(detachOutputs(producer, node_outputs[n], n), outs, n)
    /\ node_outputs' = [node_outputs EXCEPT ![n] = outs]
    /\ wire_calls' = wire_calls + 1
    /\ ret' = NoRet
    /\ UNCHANGED <<arenaVars, idVars, memVars, nodes_, values_, graph_inputs, graph_outputs, node_inputs,
                   node_op, node_graph, op_inputs, op_outputs, topo_index, consumers, tensor, value_meta>>

\* Node::addInput
NodeAddInput(n, v) ==
    /\ n \in NodeSet
    /\ wire_calls < MaxWireCalls
    /\ Len(node_inputs[n]) < MaxLen
    /\ node_inputs' = [node_inputs EXCEPT ![n] = Append(@, v)]
    /\ consumers' = IF v # NullPtr THEN addConsumer(consumers, v, n) ELSE consumers
    /\ wire_calls' = wire_calls + 1
    /\ ret' = NoRet
    /\ UNCHANGED <<arenaVars, idVars, memVars, nodes_, values_, graph_inputs, graph_outputs, node_outputs,
                   node_op, node_graph, op_inputs, op_outputs, topo_index, producer, tensor, value_meta>>

\* Node::addOutput
NodeAddOutput(n, v) ==
    /\ n \in NodeSet
    /\ wire_calls < MaxWireCalls
    /\ Len(node_outputs[n]) < MaxLen
    /\ node_outputs' = [node_outputs EXCEPT ![n] = Append(@, v)]
    /\ producer' = IF v # NullPtr THEN [producer EXCEPT ![v] = n] ELSE producer
    /\ wire_calls' = wire_calls + 1
    /\ ret' = NoRet
    /\ UNCHANGED <<arenaVars, idVars, memVars, nodes_, values_, graph_inputs, graph_outputs, node_inputs,
                   node_op, node_graph, op_inputs, op_outputs, topo_index, consumers, tensor, value_meta>>

\* Graph::removeNode: false for nullptr or a node that is not in nodes_;
\* otherwise setInputs({}), setOutputs({}), erase (which destroys the Node: its
\* destructor detaches from the now empty lists).
removeNode(node) ==
    IF node = NullPtr \/ node \notin NodeSet
    THEN /\ ret' = [NoRet EXCEPT !.call = "removeNode", !.result = "false", !.node = node]
         /\ UNCHANGED <<arenaVars, idVars, memVars, nodes_, values_, graph_inputs, graph_outputs,
                        node_inputs, node_outputs, node_op, node_graph, op_inputs,
                        op_outputs, topo_index, producer, consumers, tensor, value_meta,
                        wire_calls>>
    ELSE /\ consumers' = attachInputsToValues(detachInputs(consumers, node_inputs[node], node),
                                              <<>>, node)
         /\ producer' = attachOutputsToValues(detachOutputs(producer, node_outputs[node], node),
                                              <<>>, node)
         /\ node_inputs' = [node_inputs EXCEPT ![node] = <<>>]
         /\ node_outputs' = [node_outputs EXCEPT ![node] = <<>>]
         /\ nodes_' = SelectSeq(nodes_, LAMBDA m : m # node)
         /\ node_op' = [node_op EXCEPT ![node] = "null"]
         /\ node_graph' = [node_graph EXCEPT ![node] = "none"]
         /\ op_inputs' = [op_inputs EXCEPT ![node] = <<>>]
         /\ op_outputs' = [op_outputs EXCEPT ![node] = <<>>]
         /\ topo_index' = [topo_index EXCEPT ![node] = -1]
         /\ ret' = [NoRet EXCEPT !.call = "removeNode", !.result = "true", !.node = node,
                                 !.detached = node_inputs[node] \o node_outputs[node]]
         /\ UNCHANGED <<arenaVars, idVars, memVars, values_, graph_inputs, graph_outputs, tensor,
                        value_meta, wire_calls>>

\* ------------------------------------------------------------------ actions: Value
\* Value::addConsumer called on a Value directly, with any Node pointer.
ValueAddConsumer(v, n) ==
    /\ consumers' = addConsumer(consumers, v, n)
    /\ ret' = [NoRet EXCEPT !.call = "addConsumer", !.node = n,
                            !.result = IF hasConsumer(consumers, v, n) THEN "present"
                                       ELSE "absent"]
    /\ UNCHANGED <<arenaVars, idVars, memVars, nodes_, values_, graph_inputs, graph_outputs,
                   node_inputs, node_outputs, node_op, node_graph, op_inputs, op_outputs,
                   topo_index, producer, tensor, value_meta, wire_calls>>

\* Value::removeConsumer called on a Value directly.
ValueRemoveConsumer(v, n) ==
    /\ consumers' = removeConsumer(consumers, v, n)
    /\ ret' = [NoRet EXCEPT !.call = "removeConsumer", !.node = n,
                            !.result = IF hasConsumer(consumers, v, n) THEN "present"
                                       ELSE "absent"]
    /\ UNCHANGED <<arenaVars, idVars, memVars, nodes_, values_, graph_inputs, graph_outputs,
                   node_inputs, node_outputs, node_op, node_graph, op_inputs, op_outputs,
                   topo_index, producer, tensor, value_meta, wire_calls>>

\* ------------------------------------------------------------------ actions: queries
\* Graph::topologicalSort
topologicalSort ==
    \E q0 \in InitialQueues :
        LET order == topoOrder(q0) IN
        /\ topo_index' = annotate(order)
        /\ ret' = [NoRet EXCEPT !.call = "topologicalSort", !.order = order]
        /\ UNCHANGED <<arenaVars, idVars, memVars, nodes_, values_, graph_inputs, graph_outputs, node_inputs,
                       node_outputs, node_op, node_graph, op_inputs, op_outputs, producer, consumers, tensor,
                       value_meta, wire_calls>>

\* ------------------------------------------------------------------ actions: Graph inputs / outputs
\* Graph::setInputs
GraphSetInputs(ins) ==
    /\ graph_inputs' = ins
    /\ ret' = NoRet
    /\ UNCHANGED <<arenaVars, idVars, memVars, nodes_, values_, graph_outputs, node_inputs, node_outputs, node_op,
                   node_graph, op_inputs, op_outputs, topo_index, producer, consumers,
                   tensor, value_meta, wire_calls>>

\* Graph::setOutputs
GraphSetOutputs(outs) ==
    /\ graph_outputs' = outs
    /\ ret' = NoRet
    /\ UNCHANGED <<arenaVars, idVars, memVars, nodes_, values_, graph_inputs, node_inputs, node_outputs, node_op,
                   node_graph, op_inputs, op_outputs, topo_index, producer, consumers,
                   tensor, value_meta, wire_calls>>

\* Graph::addInput
GraphAddInput(v) ==
    /\ Len(graph_inputs) < MaxLen
    /\ graph_inputs' = Append(graph_inputs, v)
    /\ ret' = NoRet
    /\ UNCHANGED <<arenaVars, idVars, memVars, nodes_, values_, graph_outputs, node_inputs, node_outputs, node_op,
                   node_graph, op_inputs, op_outputs, topo_index, producer, consumers,
                   tensor, value_meta, wire_calls>>

\* Graph::addOutput
GraphAddOutput(v) ==
    /\ Len(graph_outputs) < MaxLen
    /\ graph_outputs' = Append(graph_outputs, v)
    /\ ret' = NoRet
    /\ UNCHANGED <<arenaVars, idVars, memVars, nodes_, values_, graph_inputs, node_inputs, node_outputs, node_op,
                   node_graph, op_inputs, op_outputs, topo_index, producer, consumers,
                   tensor, value_meta, wire_calls>>

\* ------------------------------------------------------------------ Graph::validate
\* Graph::ownsValuePtr
ownsValuePtr(v) == v # NullPtr /\ v \in Range(values_)

\* Operator::validate: no null entry in the operator's own lists.
opValidate(ins, outs) ==
    IF NullPtr \in Range(ins) \/ NullPtr \in Range(outs) THEN "invalid_argument" ELSE "ok"

\* validateInputs with the ownership check forgotten.
RECURSIVE validateInputs_noOwnerCheck(_, _)
validateInputs_noOwnerCheck(n, ins) ==
    IF ins = <<>> THEN "ok"
    ELSE IF Head(ins) = NullPtr THEN "invalid_argument"
    ELSE IF ~hasConsumer(consumers, Head(ins), n) THEN "runtime_error"
    ELSE validateInputs_noOwnerCheck(n, Tail(ins))

\* The loop over node->inputs(); the result is the exception thrown, or "ok".
RECURSIVE validateInputs(_, _)
validateInputs(n, ins) ==
    IF ins = <<>> THEN "ok"
    ELSE IF Head(ins) = NullPtr THEN "invalid_argument"
    ELSE IF ~ownsValuePtr(Head(ins)) THEN "runtime_error"
    ELSE IF ~hasConsumer(consumers, Head(ins), n) THEN "runtime_error"
    ELSE validateInputs(n, Tail(ins))

\* The loop over node->outputs().
RECURSIVE validateOutputs(_, _)
validateOutputs(n, outs) ==
    IF outs = <<>> THEN "ok"
    ELSE IF Head(outs) = NullPtr THEN "invalid_argument"
    ELSE IF ~ownsValuePtr(Head(outs)) THEN "runtime_error"
    ELSE IF producer[Head(outs)] # n THEN "runtime_error"
    ELSE validateOutputs(n, Tail(outs))

\* The body of the loop over nodes_.
validateNode(n) ==
    IF node_graph[n] # "this" THEN "runtime_error"
    ELSE IF node_op[n] # "null" /\ opValidate(op_inputs[n], op_outputs[n]) # "ok"
         THEN opValidate(op_inputs[n], op_outputs[n])
    ELSE IF validateInputs(n, node_inputs[n]) # "ok" THEN validateInputs(n, node_inputs[n])
    ELSE validateOutputs(n, node_outputs[n])

RECURSIVE validateNodes(_)
validateNodes(ns) ==
    IF ns = <<>> THEN "ok"
    ELSE IF validateNode(Head(ns)) # "ok" THEN validateNode(Head(ns))
    ELSE validateNodes(Tail(ns))

\* The loops over inputs_ and outputs_ of the graph.
RECURSIVE validateIO(_)
validateIO(vs) ==
    IF vs = <<>> THEN "ok"
    ELSE IF Head(vs) = NullPtr THEN "invalid_argument"
    ELSE IF ~ownsValuePtr(Head(vs)) THEN "runtime_error"
    ELSE validateIO(Tail(vs))

\* Everything validate checks before its topological sort.
validateStructure ==
    IF validateNodes(nodes_) # "ok" THEN validateNodes(nodes_)
    ELSE validateIO(graph_inputs \o graph_outputs)

\* Graph::validate
validate ==
    IF validateStructure # "ok"
    THEN /\ ret' = [NoRet EXCEPT !.call = "validate", !.threw = TRUE, !.result = validateStructure]
         /\ UNCHANGED <<arenaVars, idVars, memVars, nodes_, values_, graph_inputs, graph_outputs, node_inputs,
                        node_outputs, node_op, node_graph, op_inputs, op_outputs, topo_index,
                        producer, consumers, tensor, value_meta, wire_calls>>
    ELSE \E q0 \in InitialQueues :
            LET order == topoOrder(q0) IN
            /\ topo_index' = annotate(order)
            /\ ret' = IF Len(order) # Len(nodes_)
                      THEN [NoRet EXCEPT !.call = "validate", !.threw = TRUE,
                                         !.result = "runtime_error"]
                      ELSE [NoRet EXCEPT !.call = "validate", !.result = "ok"]
            /\ UNCHANGED <<arenaVars, idVars, memVars, nodes_, values_, graph_inputs, graph_outputs, node_inputs,
                           node_outputs, node_op, node_graph, op_inputs, op_outputs,
                           producer, consumers, tensor, value_meta, wire_calls>>

\* ------------------------------------------------------------------ Graph::planMemory
\* last = max(last, index of c) over the consumers found in node_index.
RECURSIVE lastOverConsumers(_, _, _)
lastOverConsumers(cs, order, last) ==
    IF cs = <<>> THEN last
    ELSE lastOverConsumers(Tail(cs), order,
                           IF Head(cs) \in Range(order)
                           THEN Max(last, IndexOf(order, Head(cs)) - 1) ELSE last)

\* The byte estimate of planMemory: elems * bpe in 64-bit unsigned arithmetic
\* when both are positive, else 0.
bytesOf(meta) ==
    LET elems == meta.num_elements
        bpe == bytes_per_element(meta.dtype)
    IN IF elems > 0 /\ bpe > 0 THEN (elems * bpe) % SizeMod ELSE 0

\* lifetimeOf with last started at 0 instead of at first.
lifetimeOf_lastFromZero(v, order) ==
    LET n == Len(order)
        first == IF producer[v] # NullPtr
                 THEN (IF producer[v] \in Range(order) THEN IndexOf(order, producer[v]) - 1 ELSE 0)
                 ELSE 0
        last0 == lastOverConsumers(consumers[v], order, 0)
        last == IF v \in Range(graph_outputs) /\ n > 0 THEN Max(last0, n - 1) ELSE last0
    IN [first_index |-> first, last_index |-> last, bytes |-> bytesOf(value_meta[v])]

\* The ValueLifetime computed for Value v from the order.
lifetimeOf(v, order) ==
    LET n == Len(order)
        first == IF producer[v] # NullPtr
                 THEN (IF producer[v] \in Range(order) THEN IndexOf(order, producer[v]) - 1 ELSE 0)
                 ELSE 0
        last0 == lastOverConsumers(consumers[v], order, first)
        last == IF v \in Range(graph_outputs) /\ n > 0 THEN Max(last0, n - 1) ELSE last0
    IN [first_index |-> first, last_index |-> last, bytes |-> bytesOf(value_meta[v])]

\* Bytes live at node index i: live += lf.bytes in std::size_t.
RECURSIVE liveBytes(_, _, _)
liveBytes(vs, lifetimes, i) ==
    IF vs = <<>> THEN 0
    ELSE LET lf == lifetimes[Head(vs)] IN
         ((IF lf.bytes # 0 /\ lf.first_index <= i /\ i <= lf.last_index THEN lf.bytes ELSE 0)
          + liveBytes(Tail(vs), lifetimes, i)) % SizeMod

\* The sweep over node indices 0..n-1.
RECURSIVE peakOver(_, _, _, _)
peakOver(i, n, vs, lifetimes) ==
    IF i >= n THEN 0
    ELSE Max(liveBytes(vs, lifetimes, i), peakOver(i + 1, n, vs, lifetimes))

\* Graph::planMemory
planMemory ==
    \E q0 \in InitialQueues :
        LET order == topoOrder(q0)
            lifetimes == [v \in Range(values_) |-> lifetimeOf(v, order)]
        IN
        /\ topo_index' = annotate(order)
        /\ ret' = IF Len(order) # Len(nodes_)
                  THEN [NoRet EXCEPT !.call = "planMemory", !.order = order]
                  ELSE [NoRet EXCEPT !.call = "planMemory", !.order = order,
                                     !.lifetimes = lifetimes,
                                     !.peak_bytes = peakOver(0, Len(order), values_, lifetimes)]
        /\ UNCHANGED <<arenaVars, idVars, memVars, nodes_, values_, graph_inputs, graph_outputs, node_inputs,
                       node_outputs, node_op, node_graph, op_inputs, op_outputs,
                       producer, consumers, tensor, value_meta, wire_calls>>

\* ------------------------------------------------------------------ Graph::execute
\* What reading through a pointer to a dead Tensor can give.
DanglingRead == {"indeterminate", "crash"}

\* runtime_input goes out of scope when execute returns or throws: every
\* pointer to it that a Value still holds now points to a dead Tensor.
endOfCall(tens) == [v \in ValueIds |-> IF tens[v] = "live" THEN "dead" ELSE tens[v]]

\* Operator::execute of the operator kinds; st = [tens, opin, opout, log, threw].
opExecute(n, st) ==
    IF node_op[n] = "Noop" THEN st
    ELSE \* IdentityOp::execute
         IF opValidate(st.opin[n], st.opout[n]) # "ok" THEN [st EXCEPT !.threw = TRUE]
         ELSE IF Len(st.opin[n]) # 1 \/ Len(st.opout[n]) # 1 THEN [st EXCEPT !.threw = TRUE]
         ELSE IF st.tens[st.opin[n][1]] = "null" THEN [st EXCEPT !.threw = TRUE]
         ELSE [st EXCEPT !.tens[st.opout[n][1]] = st.tens[st.opin[n][1]]]

\* The loop over the order: skip nodes without operator, sync the operator's
\* lists with the node's, run the operator; an exception ends the loop.
RECURSIVE runOps(_, _)
runOps(order, st) ==
    IF order = <<>> \/ st.threw THEN st
    ELSE LET n == Head(order) IN
         IF node_op[n] = "null" THEN runOps(Tail(order), st)
         ELSE runOps(Tail(order),
                     opExecute(n, [st EXCEPT !.opin[n] = node_inputs[n],
                                             !.opout[n] = node_outputs[n],
                                             !.log = Append(@, n)]))

\* Graph::execute
execute ==
    IF nodes_ = <<>>
    THEN /\ ret' = [NoRet EXCEPT !.call = "execute", !.result = "input"]
         /\ UNCHANGED <<arenaVars, idVars, memVars, nodes_, values_, graph_inputs, graph_outputs, node_inputs,
                        node_outputs, node_op, node_graph, op_inputs, op_outputs, topo_index,
                        producer, consumers, tensor, value_meta, wire_calls>>
    ELSE LET bound == IF Len(graph_inputs) = 1 /\ graph_inputs[1] # NullPtr
                      THEN [tensor EXCEPT ![graph_inputs[1]] = "live"] ELSE tensor
             thrown == [NoRet EXCEPT !.call = "execute", !.threw = TRUE, !.result = "throw"]
         IN
         /\ UNCHANGED <<arenaVars, idVars, memVars, nodes_, values_, graph_inputs, graph_outputs, node_inputs,
                        node_outputs, node_op, node_graph, producer, consumers,
                        value_meta, wire_calls>>
         /\ IF validateStructure # "ok"
            THEN /\ ret' = thrown
                 /\ tensor' = endOfCall(bound)
                 /\ UNCHANGED <<topo_index, op_inputs, op_outputs>>
            ELSE \E q1 \in InitialQueues, q2 \in InitialQueues :
                    LET o1 == topoOrder(q1)
                        o2 == topoOrder(q2)
                        run == runOps(o2, [tens |-> bound, opin |-> op_inputs,
                                           opout |-> op_outputs, log |-> <<>>,
                                           threw |-> FALSE])
                        out == graph_outputs[1]
                    IN
                    IF Len(o1) # Len(nodes_) \/ Len(o2) # Len(nodes_)
                    THEN /\ ret' = thrown
                         /\ topo_index' = annotate(IF Len(o1) # Len(nodes_) THEN o1 ELSE o2)
                         /\ tensor' = endOfCall(bound)
                         /\ UNCHANGED <<op_inputs, op_outputs>>
                    ELSE /\ topo_index' = annotate(o2)
                         /\ op_inputs' = run.opin
                         /\ op_outputs' = run.opout
                         /\ tensor' = endOfCall(run.tens)
                         /\ IF run.threw
                            THEN ret' = [thrown EXCEPT !.order = o2, !.log = run.log]
                            ELSE IF Len(graph_outputs) = 1 /\ out # NullPtr
                                    /\ run.tens[out] # "null"
                            THEN IF run.tens[out] = "live"
                                 THEN ret' = [NoRet EXCEPT !.call = "execute", !.order = o2,
                                                  !.log = run.log, !.result = "bound"]
                                 ELSE \E r \in DanglingRead :
                                        ret' = [NoRet EXCEPT !.call = "execute", !.order = o2,
                                                  !.log = run.log, !.result = r]
                            ELSE ret' = [NoRet EXCEPT !.call = "execute", !.order = o2,
                                                  !.log = run.log, !.result = "input"]

\* ------------------------------------------------------------------ Graph::~Graph
\* The members of Graph are destroyed in reverse order of declaration:
\* outputs_, inputs_, then values_ (every owned Value is destroyed), then
\* nodes_. These are the Values already destroyed when the first Node
\* destructor runs.
destroyedBeforeNodes == Range(values_)

\* The Values Node::detachFromValues dereferences for node n: each non-null
\* input (removeConsumer) and each non-null output (producer()).
reachedByDetach(n) == (Range(node_inputs[n]) \cup Range(node_outputs[n])) \ {NullPtr}

\* The destructors of the nodes of nodes_, in vector order; st = [cons, prod,
\* touched]: the back-links of the Values still alive, and the dead Values that
\* were dereferenced.
RECURSIVE destroyNodes(_, _, _)
destroyNodes(ns, dead, st) ==
    IF ns = <<>> THEN st
    ELSE LET n == Head(ns) IN
         destroyNodes(Tail(ns), dead,
                      [cons |-> detachInputs(st.cons, node_inputs[n], n),
                       prod |-> detachOutputs(st.prod, node_outputs[n], n),
                       touched |-> st.touched \cup (reachedByDetach(n) \cap dead)])

\* Graph::~Graph. Dereferencing a destroyed Value is undefined: the teardown
\* may go unnoticed or crash. Afterwards the graph, its nodes and its Values
\* no longer exist; a Value outside the graph lives on.
GraphDtor ==
    LET st == destroyNodes(nodes_, destroyedBeforeNodes,
                           [cons |-> consumers, prod |-> producer, touched |-> {}])
    IN
    /\ \E r \in (IF st.touched = {} THEN {"ok"} ELSE DanglingRead) :
          ret' = [NoRet EXCEPT !.call = "~Graph", !.result = r, !.touched_dead = st.touched]
    /\ nodes_' = <<>>
    /\ values_' = <<>>
    /\ graph_inputs' = <<>>
    /\ graph_outputs' = <<>>
    /\ node_inputs' = [n \in NodeIds |-> <<>>]
    /\ node_outputs' = [n \in NodeIds |-> <<>>]
    /\ node_op' = [n \in NodeIds |-> "null"]
    /\ node_graph' = [n \in NodeIds |-> "none"]
    /\ op_inputs' = [n \in NodeIds |-> <<>>]
    /\ op_outputs' = [n \in NodeIds |-> <<>>]
    /\ topo_index' = [n \in NodeIds |-> -1]
    /\ producer' = [v \in ValueIds |-> IF v \in destroyedBeforeNodes THEN NullPtr ELSE st.prod[v]]
    /\ consumers' = [v \in ValueIds |-> IF v \in destroyedBeforeNodes THEN <<>> ELSE st.cons[v]]
    /\ tensor' = [v \in ValueIds |-> IF v \in destroyedBeforeNodes THEN "null" ELSE tensor[v]]
    /\ value_meta' = [v \in ValueIds |-> IF v \in destroyedBeforeNodes THEN NoMeta ELSE value_meta[v]]
    /\ UNCHANGED <<arenaVars, idVars, memVars, wire_calls>>

\* ------------------------------------------------------------------ actions: SystemAllocator
\* The arguments the callers pass: AllocatorConfig values, int64_t sizes and
\* per-call alignments.
SysAlignments == {0, 32}
SysConfigs == [alignment : SysAlignments, track_allocations : BOOLEAN]
SysSizes == {-1, 0, 1, 2}

\* A SystemAllocator has been constructed.
SystemInit ==
    /\ GraphInit
    /\ IdsInit
    /\ NoArenaYet
    /\ sys \in {SystemAllocatorCtor(config) : config \in SysConfigs}
    /\ NoArenaAllocatorYet
    /\ NoCalls
    /\ NoBuffersYet
    /\ NoTensorsYet

Returned(call, arg, size, ptr, result) ==
    [call |-> call, arg |-> arg, size |-> size, ptr |-> ptr, result |-> result,
     successes |-> IF call \in {"allocate", "allocate_aligned", "reallocate"} /\ ptr # 0
                   THEN call_ret.successes + 1 ELSE call_ret.successes]

\* alloc.allocate(size_bytes) by thread t, as one call.
SysAllocate(t, size_bytes) ==
    /\ call_ret.successes < MaxSysCalls
    /\ \E got \in allocate_aligned_system(heap, alignmentFor(sys, sys.alignment_)) :
         LET r == SystemAllocator_allocate(sys, heap, size_bytes, got) IN
         /\ sys' = r.alloc
         /\ heap' = r.heap
         /\ held' = [held EXCEPT ![t] = IF r.ptr # 0 THEN @ \cup {r.ptr} ELSE @]
         /\ call_ret' = Returned("allocate", 0, size_bytes, r.ptr, FALSE)
    /\ UNCHANGED <<graphVars, arenaVars, idVars, coreVars, bufs, aaVars, in_call>>

\* alloc.allocate_aligned(size_bytes, alignment_bytes) by thread t.
SysAllocateAligned(t, size_bytes, alignment_bytes) ==
    /\ call_ret.successes < MaxSysCalls
    /\ \E got \in allocate_aligned_system(heap, alignmentFor(sys, alignment_bytes)) :
         LET r == SystemAllocator_allocate_aligned(sys, heap, size_bytes, alignment_bytes, got) IN
         /\ sys' = r.alloc
         /\ heap' = r.heap
         /\ held' = [held EXCEPT ![t] = IF r.ptr # 0 THEN @ \cup {r.ptr} ELSE @]
         /\ call_ret' = Returned("allocate_aligned", alignment_bytes, size_bytes, r.ptr, FALSE)
    /\ UNCHANGED <<graphVars, arenaVars, idVars, coreVars, bufs, aaVars, in_call>>

\* alloc.deallocate(ptr) by thread t, of a pointer it holds or of nullptr.
SysDeallocate(t, ptr) ==
    /\ ptr \in held[t] \cup {0}
    /\ LET r == SystemAllocator_deallocate(sys, heap, ptr) IN
       /\ sys' = r.alloc
       /\ heap' = r.heap
    /\ held' = [held EXCEPT ![t] = @ \ {ptr}]
    /\ call_ret' = Returned("deallocate", ptr, 0, 0, FALSE)
    /\ UNCHANGED <<graphVars, arenaVars, idVars, coreVars, bufs, aaVars, in_call>>

\* alloc.reallocate(ptr, new_size_bytes) by thread t, of a pointer it holds or
\* of nullptr. The caller no longer holds ptr when the call released it.
SysReallocate(t, ptr, new_size_bytes) ==
    /\ ptr \in held[t] \cup {0}
    /\ call_ret.successes < MaxSysCalls
    /\ \E got \in allocate_aligned_system(heap, alignmentFor(sys, sys.alignment_)) :
         LET r == SystemAllocator_reallocate(sys, heap, ptr, new_size_bytes, got) IN
         /\ sys' = r.alloc
         /\ heap' = r.heap
         /\ held' = [held EXCEPT ![t] = (@ \cap DOMAIN r.heap) \cup (IF r.ptr # 0 THEN {r.ptr} ELSE {})]
         /\ call_ret' = Returned("reallocate", ptr, new_size_bytes, r.ptr, FALSE)
    /\ UNCHANGED <<graphVars, arenaVars, idVars, coreVars, bufs, aaVars, in_call>>

\* alloc.owns(ptr) for any pointer.
SysOwns(ptr) ==
    /\ call_ret' = Returned("owns", ptr, 0, 0, SystemAllocator_owns(sys, ptr))
    /\ UNCHANGED <<graphVars, arenaVars, idVars, coreVars, bufs, aaVars, sys, heap, held, in_call>>

\* The caller fills a block it holds (the memset of the tests).
CallerWrite(t, ptr) ==
    /\ ptr \in held[t]
    /\ heap[ptr] # WrittenBlock(Len(heap[ptr]))
    /\ heap' = [heap EXCEPT ![ptr] = WrittenBlock(Len(@))]
    /\ call_ret' = Returned("write", ptr, 0, 0, FALSE)
    /\ UNCHANGED <<graphVars, arenaVars, idVars, coreVars, bufs, aaVars, sys, held, in_call>>

\* ------------------------------------------------------------------ actions: SystemAllocator, step by step
\* std::lock_guard<std::mutex> lock(tracking_->mu) that never waits.
mutex_free_always(mu_pcs) == TRUE

\* tracking_->mu can be taken when no call is inside a lock_guard block.
mutex_free(mu_pcs) == \A t \in Threads : in_call[t].pc \notin mu_pcs

LockedPcs == {"alloc_locked", "free_locked"}

\* alloc.allocate(size_bytes) up to the return of posix_memalign (lines 73-89);
\* without tracking the call returns here.
SysThreadAllocate(t, size_bytes) ==
    /\ in_call[t].pc = "idle"
    /\ call_ret.successes + Cardinality({u \in Threads : in_call[u].pc \in {"alloc_lock", "alloc_locked"}})
          < ThreadCalls
    /\ \E got \in allocate_aligned_system(heap, alignmentFor(sys, sys.alignment_)) :
         IF size_bytes <= 0 \/ got = 0
         THEN /\ call_ret' = Returned("allocate", 0, size_bytes, 0, FALSE)
              /\ UNCHANGED <<heap, held, in_call>>
         ELSE /\ heap' = heapWith(heap, got, size_bytes)
              /\ IF sys.track_allocations_
                 THEN /\ in_call' = [in_call EXCEPT ![t].pc = "alloc_lock", ![t].ptr = got,
                                                          ![t].size = size_bytes]
                      /\ UNCHANGED <<held, call_ret>>
                 ELSE /\ held' = [held EXCEPT ![t] = @ \cup {got}]
                      /\ in_call' = [in_call EXCEPT ![t].calls = @ + 1]
                      /\ call_ret' = Returned("allocate", 0, size_bytes, got, FALSE)
    /\ UNCHANGED <<graphVars, arenaVars, idVars, coreVars, bufs, aaVars, sys>>

\* The lock_guard is constructed and the call reads the tracking state.
SysThreadLock(t) ==
    /\ in_call[t].pc \in {"alloc_lock", "free_lock"}
    /\ mutex_free(LockedPcs)
    /\ in_call' = [in_call EXCEPT
                         ![t].pc = IF @ = "alloc_lock" THEN "alloc_locked" ELSE "free_locked",
                         ![t].seen = sys.tracking_]
    /\ UNCHANGED <<graphVars, arenaVars, idVars, coreVars, bufs, aaVars, sys, heap, held, call_ret>>

\* Lines 93-101: the call stores the updated tracking state, leaves the
\* lock_guard block and returns the pointer.
SysThreadTrackAllocation(t) ==
    /\ in_call[t].pc = "alloc_locked"
    /\ sys' = [sys EXCEPT !.tracking_ = trackAllocation(in_call[t].seen, in_call[t].ptr,
                                                        in_call[t].size)]
    /\ held' = [held EXCEPT ![t] = @ \cup {in_call[t].ptr}]
    /\ call_ret' = Returned("allocate", 0, in_call[t].size, in_call[t].ptr, FALSE)
    /\ in_call' = [in_call EXCEPT ![t] = [IdleCall EXCEPT !.calls = in_call[t].calls + 1]]
    /\ UNCHANGED <<graphVars, arenaVars, idVars, coreVars, bufs, aaVars, heap>>

\* alloc.deallocate(ptr) of a pointer the thread holds, up to the lock_guard.
SysThreadDeallocate(t, ptr) ==
    /\ in_call[t].pc = "idle"
    /\ ptr \in held[t]
    /\ held' = [held EXCEPT ![t] = @ \ {ptr}]
    /\ in_call' = [in_call EXCEPT ![t].pc = IF sys.track_allocations_ THEN "free_lock" ELSE "free",
                                        ![t].ptr = ptr]
    /\ UNCHANGED <<graphVars, arenaVars, idVars, coreVars, bufs, aaVars, sys, heap, call_ret>>

\* Lines 111-129: the call stores the updated tracking state and leaves the
\* lock_guard block.
SysThreadTrackFree(t) ==
    /\ in_call[t].pc = "free_locked"
    /\ sys' = [sys EXCEPT !.tracking_ = trackFree(in_call[t].seen, in_call[t].ptr)]
    /\ in_call' = [in_call EXCEPT ![t].pc = "free", ![t].seen = NoTracking]
    /\ UNCHANGED <<graphVars, arenaVars, idVars, coreVars, bufs, aaVars, heap, held, call_ret>>

\* Line 132: free_aligned_system(ptr), and the call returns.
SysThreadFree(t) ==
    /\ in_call[t].pc = "free"
    /\ heap' = heapWithout(heap, in_call[t].ptr)
    /\ call_ret' = Returned("deallocate", in_call[t].ptr, 0, 0, FALSE)
    /\ in_call' = [in_call EXCEPT ![t] = [IdleCall EXCEPT !.calls = in_call[t].calls]]
    /\ UNCHANGED <<graphVars, arenaVars, idVars, coreVars, bufs, aaVars, sys, held>>

\* ------------------------------------------------------------------ actions: ArenaAllocator
\* The arguments the callers pass.
AaSizes == {-1, 0, 8, 24}
AaAlignments == {0, 8, 32}

\* An ArenaAllocator has been constructed.
ArenaAllocatorInit ==
    /\ GraphInit
    /\ IdsInit
    /\ NoArenaYet
    /\ NoSystemAllocatorYet
    /\ NoCalls
    /\ NoBuffersYet
    /\ NoTensorsYet
    /\ \E arena_capacity_bytes \in Capacities, arena_base_alignment \in BaseAlignments,
          config \in SysConfigs :
          \E ptr \in allocate_aligned(baseAlignmentOf(arena_base_alignment)) :
             aa = ArenaAllocatorCtor(arena_capacity_bytes, arena_base_alignment, config, ptr)
    /\ issued = {}

\* The byte range a successful allocation handed out, who got it and as which
\* of its allocations.
Range_(ptr, size, t) == [ptr |-> ptr, size |-> size, by |-> t, n |-> in_call[t].calls + 1]

IssuedPtrs == {r.ptr : r \in issued}

AfterAllocation(t, r, size_bytes, call, arg) ==
    /\ aa' = r.alloc
    /\ issued' = IF r.ptr # 0 THEN issued \cup {Range_(r.ptr, size_bytes, t)} ELSE issued
    /\ held' = [held EXCEPT ![t] = IF r.ptr # 0 THEN @ \cup {r.ptr} ELSE @]
    /\ in_call' = [in_call EXCEPT ![t].calls = IF r.ptr # 0 THEN @ + 1 ELSE @]
    /\ call_ret' = Returned(call, arg, size_bytes, r.ptr, FALSE)

\* alloc.allocate(size_bytes) by thread t, as one call.
AaAllocate(t, size_bytes) ==
    /\ call_ret.successes < AaCalls
    /\ AfterAllocation(t, ArenaAllocator_allocate(aa, size_bytes), size_bytes, "allocate", 0)
    /\ UNCHANGED <<graphVars, arenaVars, idVars, coreVars, bufs, sys, heap>>

\* alloc.allocate_aligned(size_bytes, alignment_bytes) by thread t.
AaAllocateAligned(t, size_bytes, alignment_bytes) ==
    /\ call_ret.successes < AaCalls
    /\ AfterAllocation(t, ArenaAllocator_allocate_aligned(aa, size_bytes, alignment_bytes),
                       size_bytes, "allocate_aligned", alignment_bytes)
    /\ UNCHANGED <<graphVars, arenaVars, idVars, coreVars, bufs, sys, heap>>

\* alloc.deallocate(ptr) by thread t, of a pointer it got from the allocator
\* (before or after a reset) or of nullptr.
AaDeallocate(t, ptr) ==
    /\ ptr \in held[t] \cup {0}
    /\ aa' = ArenaAllocator_deallocate(aa, ptr)
    /\ held' = [held EXCEPT ![t] = @ \ {ptr}]
    /\ call_ret' = Returned("deallocate", ptr, 0, 0, FALSE)
    /\ UNCHANGED <<graphVars, arenaVars, idVars, coreVars, bufs, sys, heap, in_call, issued>>

\* alloc.owns(ptr).
AaOwns(ptr) ==
    /\ call_ret' = Returned("owns", ptr, 0, 0, ArenaAllocator_owns(aa, ptr))
    /\ UNCHANGED <<graphVars, arenaVars, idVars, coreVars, bufs, sys, heap, held, in_call, aaVars>>

\* alloc.reset().
AaReset ==
    /\ aa' = ArenaAllocator_reset(aa)
    /\ issued' = {}
    /\ call_ret' = Returned("reset", 0, 0, 0, FALSE)
    /\ UNCHANGED <<graphVars, arenaVars, idVars, coreVars, bufs, sys, heap, held, in_call>>

\* alloc.reset_stats().
AaResetStats ==
    /\ aa' = ArenaAllocator_reset_stats(aa)
    /\ call_ret' = Returned("reset_stats", 0, 0, 0, FALSE)
    /\ UNCHANGED <<graphVars, arenaVars, idVars, coreVars, bufs, sys, heap, held, in_call, issued>>

\* ------------------------------------------------------------------ actions: ArenaAllocator, step by step
\* alloc.allocate(size_bytes) up to the reads of Arena::allocate (arena.cpp
\* lines 109-132): base_, capacity_bytes_ and used_bytes_ are read without any
\* lock, and a request that does not fit returns nullptr.
AaThreadAllocate(t, size_bytes) ==
    /\ in_call[t].pc = "idle"
    /\ call_ret.successes + Cardinality({u \in Threads : in_call[u].pc \in {"arena_write", "alloc_lock", "alloc_locked"}})
          < ThreadCalls
    /\ IF ArenaAllocator_allocate([aa EXCEPT !.track_allocations_ = FALSE], size_bytes).ptr = 0
       THEN /\ call_ret' = Returned("allocate", 0, size_bytes, 0, FALSE)
            /\ UNCHANGED in_call
       ELSE /\ in_call' = [in_call EXCEPT ![t].pc = "arena_write", ![t].size = size_bytes,
                                          ![t].arena_seen = aa.arena_]
            /\ UNCHANGED call_ret
    /\ UNCHANGED <<graphVars, arenaVars, idVars, coreVars, bufs, sys, heap, held, aaVars>>

\* Arena::allocate lines 134-137: used_bytes_ and stats_ are stored from what
\* the call read, and the aligned address is returned; without tracking the
\* allocator call returns here.
AaThreadArenaWrite(t) ==
    /\ in_call[t].pc = "arena_write"
    /\ LET r == allocate(in_call[t].arena_seen, in_call[t].size, alignmentFor(aa, aa.alignment_)) IN
       /\ aa' = [aa EXCEPT !.arena_ = r.arena]
       /\ issued' = issued \cup {Range_(r.ptr, in_call[t].size, t)}
       /\ IF aa.track_allocations_
          THEN /\ in_call' = [in_call EXCEPT ![t].pc = "alloc_lock", ![t].ptr = r.ptr,
                                             ![t].arena_seen = NoArena]
               /\ UNCHANGED <<held, call_ret>>
          ELSE /\ held' = [held EXCEPT ![t] = @ \cup {r.ptr}]
               /\ in_call' = [in_call EXCEPT ![t] = [IdleCall EXCEPT !.calls = in_call[t].calls + 1]]
               /\ call_ret' = Returned("allocate", 0, in_call[t].size, r.ptr, FALSE)
    /\ UNCHANGED <<graphVars, arenaVars, idVars, coreVars, bufs, sys, heap>>

\* The lock_guard is constructed and the call reads the tracking state.
AaThreadLock(t) ==
    /\ in_call[t].pc \in {"alloc_lock", "free_lock"}
    /\ mutex_free(LockedPcs)
    /\ in_call' = [in_call EXCEPT
                      ![t].pc = IF @ = "alloc_lock" THEN "alloc_locked" ELSE "free_locked",
                      ![t].seen = aa.tracking_]
    /\ UNCHANGED <<graphVars, arenaVars, idVars, coreVars, bufs, sys, heap, held, call_ret, aaVars>>

\* allocator.cpp lines 232-240: the call stores the updated tracking state,
\* leaves the lock_guard block and returns the pointer.
AaThreadTrackAllocation(t) ==
    /\ in_call[t].pc = "alloc_locked"
    /\ aa' = [aa EXCEPT !.tracking_ = trackAllocation(in_call[t].seen, in_call[t].ptr, in_call[t].size)]
    /\ held' = [held EXCEPT ![t] = @ \cup {in_call[t].ptr}]
    /\ call_ret' = Returned("allocate", 0, in_call[t].size, in_call[t].ptr, FALSE)
    /\ in_call' = [in_call EXCEPT ![t] = [IdleCall EXCEPT !.calls = in_call[t].calls + 1]]
    /\ UNCHANGED <<graphVars, arenaVars, idVars, coreVars, bufs, sys, heap, issued>>

\* alloc.deallocate(ptr) of a pointer the thread holds, up to the lock_guard;
\* without tracking the call returns here.
AaThreadDeallocate(t, ptr) ==
    /\ in_call[t].pc = "idle"
    /\ ptr \in held[t]
    /\ held' = [held EXCEPT ![t] = @ \ {ptr}]
    /\ IF aa.track_allocations_
       THEN /\ in_call' = [in_call EXCEPT ![t].pc = "free_lock", ![t].ptr = ptr]
            /\ UNCHANGED call_ret
       ELSE /\ call_ret' = Returned("deallocate", ptr, 0, 0, FALSE)
            /\ UNCHANGED in_call
    /\ UNCHANGED <<graphVars, arenaVars, idVars, coreVars, bufs, sys, heap, aaVars>>

\* allocator.cpp lines 251-269: the call stores the updated tracking state,
\* leaves the lock_guard block and returns.
AaThreadTrackFree(t) ==
    /\ in_call[t].pc = "free_locked"
    /\ aa' = [aa EXCEPT !.tracking_ = trackFree(in_call[t].seen, in_call[t].ptr)]
    /\ call_ret' = Returned("deallocate", in_call[t].ptr, 0, 0, FALSE)
    /\ in_call' = [in_call EXCEPT ![t] = [IdleCall EXCEPT !.calls = in_call[t].calls]]
    /\ UNCHANGED <<graphVars, arenaVars, idVars, coreVars, bufs, sys, heap, held, issued>>

\* ------------------------------------------------------------------ actions: Buffer
\* The arguments the callers pass: sizes, alignments, and as allocator either
\* nullptr ("null") or the SystemAllocator ("sys").
BufSizes == {2}
BufAlignments == {3, 16}
BufAllocators == {"null", "sys"}

\* Buffers share a tracking SystemAllocator.
BufferInit ==
    /\ GraphInit
    /\ IdsInit
    /\ NoArenaYet
    /\ NoArenaAllocatorYet
    /\ NoCalls
    /\ NoBuffersYet
    /\ NoTensorsYet
    /\ sys \in {SystemAllocatorCtor(config) : config \in {c \in SysConfigs : c.track_allocations}}

\* The allocator still serves requests within the bound.
WithinCalls(allocator) == allocator = "sys" => sys.tracking_.stats.allocations < BufCalls

\* Buffer::allocate on the object buf of Buffer b, from its leading
\* `if (owns_) deallocate();` on. (call_ret keeps what allocate returned, and as
\* ptr whether the allocator argument was nullptr, 0, or not, -1.)
allocateInto(b, buf, size, alignment, allocator, use_canary, call) ==
    LET d == dropIfOwned(buf, heap) IN
    \E got \in bufferGets(sys, d.heap, alignment, allocator) :
        LET r == Buffer_allocate(d.buf, sys, d.heap, size, alignment, allocator, use_canary, got) IN
        /\ bufs' = [bufs EXCEPT ![b] = [alive |-> TRUE, obj |-> r.buf]]
        /\ sys' = r.alloc
        /\ heap' = r.heap
        /\ call_ret' = Returned(call, b, 0, IF allocator = "null" THEN 0 ELSE -1, r.ok)

\* Buffer b(size, alignment, allocator, use_canary).
BufferCtor(b, size, alignment, allocator, use_canary) ==
    /\ ~bufs[b].alive
    /\ WithinCalls(allocator)
    /\ allocateInto(b, [NoBuffer EXCEPT !.alignment_ = alignment, !.owns_ = TRUE,
                                        !.use_canary_ = use_canary],
                    size, alignment, allocator, use_canary, "Buffer")
    /\ UNCHANGED <<graphVars, arenaVars, idVars, coreVars, aaVars, held, in_call>>

\* Buffer b(data, size, alignment, owned) around memory the caller got from
\* malloc, or around nullptr (use_canary at its default, false).
BufferAdopt(b, size, alignment, owned) ==
    /\ ~bufs[b].alive
    /\ \E data \in allocate_aligned_system(heap, MaxAlignT) :
         /\ heap' = IF data # 0 THEN heapWith(heap, data, size) ELSE heap
         /\ bufs' = [bufs EXCEPT ![b] = [alive |-> TRUE,
                                         obj |-> [base_ |-> data, data_ |-> data, size_ |-> size,
                                                  alignment_ |-> alignment, owns_ |-> owned,
                                                  use_canary_ |-> FALSE]]]
         /\ call_ret' = Returned("Buffer(data)", b, 0, 0, FALSE)
    /\ UNCHANGED <<graphVars, arenaVars, idVars, coreVars, aaVars, sys, held, in_call>>

\* b.allocate(size, alignment, allocator, use_canary).
BufferAllocate(b, size, alignment, allocator, use_canary) ==
    /\ bufs[b].alive
    /\ WithinCalls(allocator)
    /\ allocateInto(b, bufs[b].obj, size, alignment, allocator, use_canary, "Buffer::allocate")
    /\ UNCHANGED <<graphVars, arenaVars, idVars, coreVars, aaVars, held, in_call>>

\* b.deallocate().
BufferDeallocate(b) ==
    /\ bufs[b].alive
    /\ LET d == Buffer_deallocate(bufs[b].obj, heap) IN
       /\ bufs' = [bufs EXCEPT ![b].obj = d.buf]
       /\ heap' = d.heap
    /\ call_ret' = Returned("Buffer::deallocate", b, 0, 0, FALSE)
    /\ UNCHANGED <<graphVars, arenaVars, idVars, coreVars, aaVars, sys, held, in_call>>

\* ~Buffer.
BufferDtor(b) ==
    /\ bufs[b].alive
    /\ LET d == dropIfOwned(bufs[b].obj, heap) IN
       /\ bufs' = [bufs EXCEPT ![b] = [alive |-> FALSE, obj |-> NoBuffer]]
       /\ heap' = d.heap
    /\ call_ret' = Returned("~Buffer", b, 0, 0, FALSE)
    /\ UNCHANGED <<graphVars, arenaVars, idVars, coreVars, aaVars, sys, held, in_call>>

\* The copy made of Buffer o into the object buf of Buffer b.
copyInto(b, buf, h, o, call) ==
    \E got \in bufferGets(sys, h, bufs[o].obj.alignment_, "null") :
        LET r == Buffer_copyFrom(buf, sys, h, bufs[o].obj, got) IN
        /\ bufs' = [bufs EXCEPT ![b] = [alive |-> TRUE, obj |-> r.buf]]
        /\ heap' = r.heap
        /\ call_ret' = Returned(call, b, 0, 0, FALSE)

\* Buffer b(o): copy construction.
BufferCopyCtor(b, o) ==
    /\ ~bufs[b].alive
    /\ bufs[o].alive
    /\ copyInto(b, NoBuffer, heap, o, "Buffer(const Buffer&)")
    /\ UNCHANGED <<graphVars, arenaVars, idVars, coreVars, aaVars, sys, held, in_call>>

\* b = o: copy assignment (b = b returns at once).
BufferCopyAssign(b, o) ==
    /\ bufs[b].alive
    /\ bufs[o].alive
    /\ IF b = o
       THEN /\ call_ret' = Returned("operator=(const Buffer&)", b, 0, 0, FALSE)
            /\ UNCHANGED <<bufs, heap>>
       ELSE LET d == dropIfOwned(bufs[b].obj, heap)
                e == dropIfOwned(d.buf, d.heap)
            IN copyInto(b, IF bufs[o].obj.data_ # 0 /\ bufs[o].obj.size_ > 0 THEN e.buf ELSE d.buf,
                        e.heap, o, "operator=(const Buffer&)")
    /\ UNCHANGED <<graphVars, arenaVars, idVars, coreVars, aaVars, sys, held, in_call>>

\* Buffer b(std::move(o)): move construction.
BufferMoveCtor(b, o) ==
    /\ ~bufs[b].alive
    /\ bufs[o].alive
    /\ bufs' = [bufs EXCEPT ![b] = [alive |-> TRUE, obj |-> bufs[o].obj],
                            ![o].obj = movedFrom(@)]
    /\ call_ret' = Returned("Buffer(Buffer&&)", b, 0, 0, FALSE)
    /\ UNCHANGED <<graphVars, arenaVars, idVars, coreVars, aaVars, sys, heap, held, in_call>>

\* b = std::move(o): move assignment (b = std::move(b) returns at once).
BufferMoveAssign(b, o) ==
    /\ bufs[b].alive
    /\ bufs[o].alive
    /\ IF b = o
       THEN UNCHANGED <<bufs, heap>>
       ELSE /\ heap' = dropIfOwned(bufs[b].obj, heap).heap
            /\ bufs' = [bufs EXCEPT ![b].obj = bufs[o].obj, ![o].obj = movedFrom(@)]
    /\ call_ret' = Returned("operator=(Buffer&&)", b, 0, 0, FALSE)
    /\ UNCHANGED <<graphVars, arenaVars, idVars, coreVars, aaVars, sys, held, in_call>>

\* ------------------------------------------------------------------ actions: Shape
\* The sequences over S of length at most n.
SeqsOver(S, n) == UNION {[1..k -> S] : k \in 0..n}

\* The shapes and axis arguments the callers pass.
Shapes == SeqsOver(0..MaxDim, MaxRank)
Axes == (-(MaxRank + 2))..(MaxRank + 1)

OpReturned(call, args, threw, result) ==
    [call |-> call, args |-> args, threw |-> threw, result |-> result, of |-> <<>>]

\* Shape::broadcast(shape1, shape2).
ShapeBroadcast(dims1, dims2) ==
    /\ op_ret' = OpReturned("Shape::broadcast", <<dims1, dims2>>,
                            Shape_broadcast(dims1, dims2).threw, Shape_broadcast(dims1, dims2).shape)
    /\ UNCHANGED <<graphVars, arenaVars, idVars, sysVars, aaVars, bufs, tensors>>

\* shape.squeeze(axis).
ShapeSqueeze(dims, axis) ==
    /\ op_ret' = OpReturned("Shape::squeeze", <<dims, axis>>,
                            Shape_squeeze(dims, axis).threw, Shape_squeeze(dims, axis).shape)
    /\ UNCHANGED <<graphVars, arenaVars, idVars, sysVars, aaVars, bufs, tensors>>

\* shape.unsqueeze(axis).
ShapeUnsqueeze(dims, axis) ==
    /\ op_ret' = OpReturned("Shape::unsqueeze", <<dims, axis>>,
                            Shape_unsqueeze(dims, axis).threw, Shape_unsqueeze(dims, axis).shape)
    /\ UNCHANGED <<graphVars, arenaVars, idVars, sysVars, aaVars, bufs, tensors>>

\* ------------------------------------------------------------------ actions: Tensor views
\* The Tensor viewed is tensors[1]; it wraps the caller's buffer at ViewData.
ViewData == 64
ViewShapes == SeqsOver(0..ViewDim, ViewRank)
RangeBounds == (-1)..ViewDim
SliceRanges == SeqsOver(RangeBounds \X RangeBounds, ViewRank)
TransposeAxes == SeqsOver((-1)..ViewRank, ViewRank)

ViewsInit ==
    /\ GraphInit
    /\ IdsInit
    /\ NoArenaYet
    /\ NoSystemAllocatorYet
    /\ NoArenaAllocatorYet
    /\ NoCalls
    /\ NoBuffersYet
    /\ op_ret = NoOpRet
    /\ \E dims \in ViewShapes :
          tensors = [i \in TensorIds |->
                        IF i = 1 THEN [alive |-> TRUE, obj |-> TensorWrap(dims, "FP32", ViewData, FALSE)]
                        ELSE [alive |-> FALSE, obj |-> NoTensor]]

\* t.slice(ranges), once the result of the previous call has been kept or
\* dropped.
TensorSlice(ranges) ==
    /\ op_ret = NoOpRet
    /\ op_ret' = OpReturned("Tensor::slice", <<tensors[1].obj, ranges>>,
                            Tensor_slice(tensors[1].obj, ranges).threw,
                            Tensor_slice(tensors[1].obj, ranges).view)
    /\ UNCHANGED <<graphVars, arenaVars, idVars, sysVars, aaVars, bufs, tensors>>

\* t.transpose(axes).
TensorTranspose(axes) ==
    /\ op_ret = NoOpRet
    /\ op_ret' = OpReturned("Tensor::transpose", <<tensors[1].obj, axes>>,
                            Tensor_transpose(tensors[1].obj, axes).threw,
                            Tensor_transpose(tensors[1].obj, axes).view)
    /\ UNCHANGED <<graphVars, arenaVars, idVars, sysVars, aaVars, bufs, tensors>>

\* The caller goes on with the view it was given: t = t.slice(...) or
\* t = t.transpose(...), a move assignment from the returned Tensor to a Tensor
\* that owns nothing.
TensorKeepView ==
    /\ op_ret.call \in {"Tensor::slice", "Tensor::transpose"}
    /\ op_ret.threw = "none"
    /\ tensors' = [tensors EXCEPT ![1].obj = op_ret.result]
    /\ op_ret' = NoOpRet
    /\ UNCHANGED <<graphVars, arenaVars, idVars, sysVars, aaVars, bufs>>

\* The caller drops what the last call returned (or has caught what it threw).
TensorDropView ==
    /\ op_ret # NoOpRet
    /\ op_ret' = NoOpRet
    /\ UNCHANGED <<graphVars, arenaVars, idVars, sysVars, aaVars, bufs, tensors>>

\* ------------------------------------------------------------------ actions: Tensor ownership
\* The shapes and element type of the Tensors constructed with an allocator, and
\* the allocator argument: a tracking SystemAllocator or nullptr.
OwnedShapes == {<<2>>}
TensorAllocators == {"sys", "null"}

TensorInit ==
    /\ GraphInit
    /\ IdsInit
    /\ NoArenaYet
    /\ NoArenaAllocatorYet
    /\ NoCalls
    /\ NoBuffersYet
    /\ NoTensorsYet
    /\ sys = SystemAllocatorCtor([alignment |-> 0, track_allocations |-> TRUE])

\* What a call on Tensor dst with argument src (0 where there is none) did:
\* `of` keeps the two objects as they were before the call, `result` the block
\* the call released (0 for none) and whether it was a block on the heap.
TensorReturned(call, dst, src, released) ==
    [call |-> call, args |-> <<dst, src>>, threw |-> "none",
     result |-> [released |-> released, was_live |-> released \in DOMAIN heap],
     of |-> <<tensors[dst].obj, IF src = 0 THEN NoTensor ELSE tensors[src].obj>>]

\* The block a Tensor releases when it is destroyed or overwritten.
releasedBy(t) == IF t.owns_data_ THEN t.data_ ELSE 0

\* Tensor t(shape, dtype, allocator).
TensorCtor(t, dims, dtype, allocator) ==
    /\ ~tensors[t].alive
    /\ allocator = "sys" => sys.tracking_.stats.allocations < TensorCalls
    /\ \E got \in (IF allocator = "sys" /\ num_elements(dims) > 0
                   THEN allocate_aligned_system(heap, alignmentFor(sys, sys.alignment_))
                   ELSE {0}) :
          LET r == Tensor_ctor(sys, heap, dims, dtype, allocator, got) IN
          /\ tensors' = [tensors EXCEPT ![t] = [alive |-> TRUE, obj |-> r.t]]
          /\ sys' = r.alloc
          /\ heap' = r.heap
    /\ op_ret' = TensorReturned("Tensor", t, 0, 0)
    /\ UNCHANGED <<graphVars, arenaVars, idVars, aaVars, bufs, held, in_call, call_ret>>

\* t.deallocate().
TensorDeallocate(t) ==
    /\ tensors[t].alive
    /\ LET r == Tensor_deallocate(tensors[t].obj, heap) IN
       /\ tensors' = [tensors EXCEPT ![t].obj = r.t]
       /\ heap' = r.heap
    /\ op_ret' = TensorReturned("Tensor::deallocate", t, 0, releasedBy(tensors[t].obj))
    /\ UNCHANGED <<graphVars, arenaVars, idVars, aaVars, bufs, sys, held, in_call, call_ret>>

\* t.set_data(new_data, take_ownership).
TensorSetData(t, new_data, take_ownership) ==
    /\ tensors[t].alive
    /\ LET r == Tensor_set_data(tensors[t].obj, heap, new_data, take_ownership) IN
       /\ tensors' = [tensors EXCEPT ![t].obj = r.t]
       /\ heap' = r.heap
    /\ op_ret' = TensorReturned("Tensor::set_data", t, 0, releasedBy(tensors[t].obj))
    /\ UNCHANGED <<graphVars, arenaVars, idVars, aaVars, bufs, sys, held, in_call, call_ret>>

\* t goes out of scope.
TensorDtor(t) ==
    /\ tensors[t].alive
    /\ tensors' = [tensors EXCEPT ![t] = [alive |-> FALSE, obj |-> NoTensor]]
    /\ heap' = Tensor_dtor(tensors[t].obj, heap)
    /\ op_ret' = TensorReturned("~Tensor", t, 0, releasedBy(tensors[t].obj))
    /\ UNCHANGED <<graphVars, arenaVars, idVars, aaVars, bufs, sys, held, in_call, call_ret>>

\* Tensor t(o).
TensorCopyCtor(t, o) ==
    /\ ~tensors[t].alive
    /\ tensors[o].alive
    /\ tensors' = [tensors EXCEPT ![t] = [alive |-> TRUE, obj |-> Tensor_copyOf(tensors[o].obj)]]
    /\ op_ret' = TensorReturned("Tensor(const Tensor&)", t, o, 0)
    /\ UNCHANGED <<graphVars, arenaVars, idVars, aaVars, bufs, sysVars>>

\* t = o.
TensorCopyAssign(t, o) ==
    /\ tensors[t].alive
    /\ tensors[o].alive
    /\ IF t = o THEN UNCHANGED <<tensors, heap>>
       ELSE LET r == Tensor_deallocate(tensors[t].obj, heap) IN
            /\ tensors' = [tensors EXCEPT ![t].obj = Tensor_copyOf(tensors[o].obj)]
            /\ heap' = r.heap
    /\ op_ret' = TensorReturned("operator=(const Tensor&)", t, o,
                                IF t = o THEN 0 ELSE releasedBy(tensors[t].obj))
    /\ UNCHANGED <<graphVars, arenaVars, idVars, aaVars, bufs, sys, held, in_call, call_ret>>

\* Tensor t(std::move(o)).
TensorMoveCtor(t, o) ==
    /\ ~tensors[t].alive
    /\ tensors[o].alive
    /\ tensors' = [tensors EXCEPT ![t] = [alive |-> TRUE, obj |-> tensors[o].obj],
                                  ![o].obj = Tensor_movedFrom(tensors[o].obj)]
    /\ op_ret' = TensorReturned("Tensor(Tensor&&)", t, o, 0)
    /\ UNCHANGED <<graphVars, arenaVars, idVars, aaVars, bufs, sysVars>>

\* t = std::move(o).
TensorMoveAssign(t, o) ==
    /\ tensors[t].alive
    /\ tensors[o].alive
    /\ IF t = o THEN UNCHANGED <<tensors, heap>>
       ELSE LET r == Tensor_deallocate(tensors[t].obj, heap) IN
            /\ tensors' = [tensors EXCEPT ![t].obj = tensors[o].obj,
                                          ![o].obj = Tensor_movedFrom(tensors[o].obj)]
            /\ heap' = r.heap
    /\ op_ret' = TensorReturned("operator=(Tensor&&)", t, o,
                                IF t = o THEN 0 ELSE releasedBy(tensors[t].obj))
    /\ UNCHANGED <<graphVars, arenaVars, idVars, aaVars, bufs, sys, held, in_call, call_ret>>

\* ------------------------------------------------------------------ actions: quantization
QuantValues == (-MaxQuantValue)..MaxQuantValue
QuantScales == (-1)..MaxQuantScale

\* q = quantize_symmetric_int8(value, scale).
Quantize(value, scale) ==
    /\ op_ret = NoOpRet
    /\ op_ret' = OpReturned("quantize_symmetric_int8", <<value, scale>>,
                            quantize_symmetric_int8(value, scale).threw,
                            quantize_symmetric_int8(value, scale).q)
    /\ UNCHANGED <<graphVars, arenaVars, idVars, sysVars, aaVars, bufs, tensors>>

\* y = dequantize_symmetric_int8(q, scale) with the q and the scale of the
\* quantize call before it; `of` keeps the value that was quantized.
Dequantize ==
    /\ op_ret.call = "quantize_symmetric_int8"
    /\ op_ret.threw = "none"
    /\ op_ret' = [call |-> "dequantize_symmetric_int8",
                  args |-> <<op_ret.result, op_ret.args[2]>>,
                  threw |-> "none",
                  result |-> dequantize_symmetric_int8(op_ret.result, op_ret.args[2]),
                  of |-> <<op_ret.args[1]>>]
    /\ UNCHANGED <<graphVars, arenaVars, idVars, sysVars, aaVars, bufs, tensors>>

\* ------------------------------------------------------------------ specifications
OwnedNow == Range(values_)

\* Every pointer a caller can pass where a Value* is expected: a Value of this
\* graph, nullptr, or a Value that lives outside the graph.
AnyPtr == OwnedNow \cup {NullPtr, ForeignValue}

\* Graphs of up to TopoNodes nodes wired over TopoValues owned Values, sorted
\* topologically.
TopoNext ==
    \/ (Len(values_) < TopoValues /\ createValue(F32x4))
    \/ (Len(nodes_) < TopoNodes /\ addNode("Noop"))
    \/ \E n \in NodeSet, ins \in SeqsUpTo(OwnedNow, MaxLen) : NodeSetInputs(n, ins)
    \/ \E n \in NodeSet, outs \in SeqsUpTo(OwnedNow, MaxLen) : NodeSetOutputs(n, outs)
    \/ \E n \in NodeSet, v \in OwnedNow : NodeAddInput(n, v)
    \/ \E n \in NodeSet, v \in OwnedNow : NodeAddOutput(n, v)
    \/ topologicalSort

SpecTopo == Init /\ [][TopoNext]_vars

\* Graphs wired over owned Values, with declared graph outputs, validated and
\* planned.
PlanNext ==
    \/ createValue(F32x4)
    \/ (Len(nodes_) < PlanNodes /\ addNode("Noop"))
    \/ \E n \in NodeSet, ins \in SeqsUpTo(OwnedNow, MaxLen) :
          (wire_calls < PlanWireCalls /\ NodeSetInputs(n, ins))
    \/ \E n \in NodeSet, outs \in SeqsUpTo(OwnedNow, MaxLen) :
          (wire_calls < PlanWireCalls /\ NodeSetOutputs(n, outs))
    \/ \E n \in NodeSet, v \in OwnedNow :
          (wire_calls < PlanWireCalls /\ NodeAddInput(n, v))
    \/ \E n \in NodeSet, v \in OwnedNow :
          (wire_calls < PlanWireCalls /\ NodeAddOutput(n, v))
    \/ \E outs \in SeqsUpTo(OwnedNow, 1) : GraphSetOutputs(outs)
    \/ validate
    \/ planMemory

SpecPlan == Init /\ [][PlanNext]_vars

\* Graphs wired with any pointer, null and foreign Values included, validated.
ValidateNext ==
    \/ (Len(values_) < ValidateValues /\ createValue(F32x4))
    \/ (Len(nodes_) < ValidateNodes /\ addNode("Noop"))
    \/ \E n \in NodeSet, ins \in SeqsUpTo(AnyPtr, 1) :
          (wire_calls < ValidateWireCalls /\ NodeSetInputs(n, ins))
    \/ \E n \in NodeSet, outs \in SeqsUpTo(AnyPtr, 1) :
          (wire_calls < ValidateWireCalls /\ NodeSetOutputs(n, outs))
    \/ \E n \in NodeSet, v \in AnyPtr :
          (wire_calls < ValidateWireCalls /\ NodeAddInput(n, v))
    \/ \E n \in NodeSet, v \in AnyPtr :
          (wire_calls < ValidateWireCalls /\ NodeAddOutput(n, v))
    \/ \E v \in AnyPtr : (Len(graph_inputs) < ValidateIoLen /\ GraphAddInput(v))
    \/ \E v \in AnyPtr : (Len(graph_outputs) < ValidateIoLen /\ GraphAddOutput(v))
    \/ validate

SpecValidate == Init /\ [][ValidateNext]_vars

\* Graphs of nodes with and without operator, executed: the order in which
\* the operators run.
OrderNext ==
    \/ createValue(F32x4)
    \/ \E op \in {"null", "Noop"} : (Len(nodes_) < OrderNodes /\ addNode(op))
    \/ \E n \in NodeSet, ins \in SeqsUpTo(OwnedNow, MaxLen) :
          (wire_calls < OrderWireCalls /\ NodeSetInputs(n, ins))
    \/ \E n \in NodeSet, outs \in SeqsUpTo(OwnedNow, MaxLen) :
          (wire_calls < OrderWireCalls /\ NodeSetOutputs(n, outs))
    \/ execute

SpecOrder == Init /\ [][OrderNext]_vars

\* Graphs with one operator, a declared input and output, executed: what
\* execute binds and what it returns.
ExecNext ==
    \/ createValue(F32x4)
    \/ \E op \in OpKinds : (Len(nodes_) < ExecNodes /\ addNode(op))
    \/ \E n \in NodeSet, ins \in SeqsUpTo(OwnedNow, 1) :
          (wire_calls < ExecWireCalls /\ NodeSetInputs(n, ins))
    \/ \E n \in NodeSet, outs \in SeqsUpTo(OwnedNow, 1) :
          (wire_calls < ExecWireCalls /\ NodeSetOutputs(n, outs))
    \/ \E ins \in SeqsUpTo(OwnedNow, MaxLen) : GraphSetInputs(ins)
    \/ \E outs \in SeqsUpTo(OwnedNow, MaxLen) : GraphSetOutputs(outs)
    \/ execute

SpecExec == Init /\ [][ExecNext]_vars

\* A frontend that mints its Values and Nodes first, then wires the nodes in
\* creation order (a node's inputs, then its outputs, each list assigned at most
\* once), then plans memory.
Built == Len(nodes_) = MaxNodes /\ Len(values_) = MaxValues /\ ret.call = "none"

LaterUnwired(n) == \A m \in NodeSet : m > n => node_inputs[m] = <<>> /\ node_outputs[m] = <<>>

FrontendNext ==
    \/ createValue(F32x4)
    \/ addNode("Noop")
    \/ \E n \in NodeSet, ins \in SeqsUpTo(OwnedNow, MaxLen) \ {<<>>} :
          /\ Built /\ LaterUnwired(n)
          /\ node_inputs[n] = <<>> /\ node_outputs[n] = <<>>
          /\ NodeSetInputs(n, ins)
    \/ \E n \in NodeSet, outs \in SeqsUpTo(OwnedNow, MaxLen) \ {<<>>} :
          /\ Built /\ LaterUnwired(n)
          /\ node_outputs[n] = <<>>
          /\ NodeSetOutputs(n, outs)
    \/ planMemory

SpecFrontend == Init /\ [][FrontendNext]_vars

\* Values of several sizes: Shape({2, 2}) FP32, a shape with a zero dimension,
\* an UNKNOWN dtype, and a shape of SizeMod / 8 FP32 elements (half the range of
\* std::size_t in bytes).
PeakMetas == {F32x4,
              [num_elements |-> 0, dtype |-> "FP32"],
              [num_elements |-> 4, dtype |-> "UNKNOWN"],
              [num_elements |-> SizeMod \div 8, dtype |-> "FP32"]}

\* Graphs over Values of these sizes, planned.
PeakNext ==
    \/ \E meta \in PeakMetas : createValue(meta)
    \/ (Len(nodes_) < PeakNodes /\ addNode("Noop"))
    \/ \E n \in NodeSet, ins \in SeqsUpTo(OwnedNow, MaxLen) :
          (wire_calls < PeakWireCalls /\ NodeSetInputs(n, ins))
    \/ \E n \in NodeSet, outs \in SeqsUpTo(OwnedNow, 1) :
          (wire_calls < PeakWireCalls /\ NodeSetOutputs(n, outs))
    \/ \E outs \in SeqsUpTo(OwnedNow, 1) : GraphSetOutputs(outs)
    \/ planMemory

SpecPeak == Init /\ [][PeakNext]_vars

\* Graphs whose nodes are wired, rewired and removed, with any pointer.
RewireNext ==
    \/ (Len(values_) < RewireValues /\ createValue(F32x4))
    \/ (Len(nodes_) < RewireNodes /\ addNode("Noop"))
    \/ \E n \in NodeSet, ins \in SeqsUpTo(AnyPtr, MaxLen) :
          (wire_calls < RewireWireCalls /\ NodeSetInputs(n, ins))
    \/ \E n \in NodeSet, outs \in SeqsUpTo(AnyPtr, MaxLen) :
          (wire_calls < RewireWireCalls /\ NodeSetOutputs(n, outs))
    \/ \E n \in NodeSet, v \in AnyPtr :
          (wire_calls < RewireWireCalls /\ NodeAddInput(n, v))
    \/ \E n \in NodeSet, v \in AnyPtr :
          (wire_calls < RewireWireCalls /\ NodeAddOutput(n, v))
    \/ \E n \in NodeIds \cup {NullPtr} : removeNode(n)

SpecRewire == Init /\ [][RewireNext]_vars

\* Values whose consumer lists are edited directly, as the Value tests do.
ValueNext ==
    \/ \E v \in 1..FreeValues, n \in NodeIds \cup {NullPtr} : ValueAddConsumer(v, n)
    \/ \E v \in 1..FreeValues, n \in NodeIds \cup {NullPtr} : ValueRemoveConsumer(v, n)

SpecValue == Init /\ [][ValueNext]_vars

\* The graph object exists until its destructor has run.
Alive == ret.call # "~Graph"

\* Graphs that are built, wired and destroyed.
TeardownNext ==
    \/ (Alive /\ Len(values_) < TeardownValues /\ createValue(F32x4))
    \/ (Alive /\ Len(nodes_) < TeardownNodes /\ addNode("Noop"))
    \/ \E n \in NodeSet, ins \in SeqsUpTo(AnyPtr, MaxLen) :
          (Alive /\ wire_calls < TeardownWireCalls /\ NodeSetInputs(n, ins))
    \/ \E n \in NodeSet, outs \in SeqsUpTo(AnyPtr, MaxLen) :
          (Alive /\ wire_calls < TeardownWireCalls /\ NodeSetOutputs(n, outs))
    \/ \E n \in NodeSet : (Alive /\ removeNode(n))
    \/ (Alive /\ GraphDtor)

SpecTeardown == Init /\ [][TeardownNext]_vars

\* Threads that construct Values concurrently.
IdsNext ==
    \/ \E t \in Threads : ValueCtorBegin(t)
    \/ \E t \in Threads : ValueNextId(t)
    \/ \E t \in Threads : ValueCtorEnd(t)

SpecIds == Init /\ [][IdsNext]_vars

\* An arena that serves allocation requests and is reset.
ArenaNext ==
    \/ \E size_bytes \in AllocSizes, alignment \in AllocAlignments :
          ArenaAllocate(size_bytes, alignment)
    \/ ArenaReset

SpecArena == ArenaInit /\ [][ArenaNext]_vars

\* One caller uses a SystemAllocator, one call at a time.
SystemNext ==
    \/ \E size_bytes \in SysSizes : SysAllocate(1, size_bytes)
    \/ \E size_bytes \in SysSizes \ {-1}, alignment_bytes \in SysAlignments :
          SysAllocateAligned(1, size_bytes, alignment_bytes)
    \/ \E ptr \in SysAddrs \cup {0} : SysDeallocate(1, ptr)
    \/ \E ptr \in SysAddrs \cup {0}, new_size_bytes \in SysSizes : SysReallocate(1, ptr, new_size_bytes)
    \/ \E ptr \in SysAddrs \cup {0} : SysOwns(ptr)
    \/ \E ptr \in SysAddrs : CallerWrite(1, ptr)

SpecSystem == SystemInit /\ [][SystemNext]_vars

\* Several threads use one SystemAllocator; every pointer is freed by the
\* thread that got it.
SystemThreadsNext ==
    \E t \in Threads :
        \/ \E size_bytes \in SysSizes : SysThreadAllocate(t, size_bytes)
        \/ SysThreadLock(t)
        \/ SysThreadTrackAllocation(t)
        \/ \E ptr \in SysAddrs : SysThreadDeallocate(t, ptr)
        \/ SysThreadTrackFree(t)
        \/ SysThreadFree(t)

SpecSystemThreads == SystemInit /\ [][SystemThreadsNext]_vars

\* One caller uses an ArenaAllocator, one call at a time.
ArenaAllocatorNext ==
    \/ \E size_bytes \in AaSizes : AaAllocate(1, size_bytes)
    \/ \E size_bytes \in AaSizes \ {-1}, alignment_bytes \in AaAlignments :
          AaAllocateAligned(1, size_bytes, alignment_bytes)
    \/ \E ptr \in held[1] \cup {0} : AaDeallocate(1, ptr)
    \/ \E ptr \in held[1] \cup IssuedPtrs \cup {0} : AaOwns(ptr)
    \/ AaReset
    \/ AaResetStats

SpecArenaAllocator == ArenaAllocatorInit /\ [][ArenaAllocatorNext]_vars

\* Several threads use one ArenaAllocator.
ArenaAllocatorThreadsNext ==
    \E t \in Threads :
        \/ \E size_bytes \in AaSizes : AaThreadAllocate(t, size_bytes)
        \/ AaThreadArenaWrite(t)
        \/ AaThreadLock(t)
        \/ AaThreadTrackAllocation(t)
        \/ \E ptr \in held[t] : AaThreadDeallocate(t, ptr)
        \/ AaThreadTrackFree(t)

SpecArenaAllocatorThreads == ArenaAllocatorInit /\ [][ArenaAllocatorThreadsNext]_vars

\* Buffers are constructed, allocated, copied, moved and destroyed.
BufferNext ==
    \E b \in BufIds :
        \/ \E size \in BufSizes, alignment \in BufAlignments, allocator \in BufAllocators,
              use_canary \in BOOLEAN : BufferCtor(b, size, alignment, allocator, use_canary)
        \/ \E size \in BufSizes, alignment \in BufAlignments, owned \in BOOLEAN :
              BufferAdopt(b, size, alignment, owned)
        \/ \E size \in BufSizes, alignment \in BufAlignments, allocator \in BufAllocators,
              use_canary \in BOOLEAN : BufferAllocate(b, size, alignment, allocator, use_canary)
        \/ BufferDeallocate(b)
        \/ BufferDtor(b)
        \/ \E o \in BufIds : BufferCopyCtor(b, o)
        \/ \E o \in BufIds : BufferCopyAssign(b, o)
        \/ \E o \in BufIds : BufferMoveCtor(b, o)
        \/ \E o \in BufIds : BufferMoveAssign(b, o)

SpecBuffer == BufferInit /\ [][BufferNext]_vars

\* Shape calls on shapes of bounded rank and dimensions.
ShapeInit ==
    /\ GraphInit
    /\ IdsInit
    /\ NoArenaYet
    /\ MemInit

ShapeNext ==
    \/ \E dims1, dims2 \in Shapes : op_ret = NoOpRet /\ ShapeBroadcast(dims1, dims2)
    \/ \E dims \in Shapes, axis \in Axes : op_ret = NoOpRet /\ ShapeSqueeze(dims, axis)
    \/ \E dims \in Shapes, axis \in Axes : op_ret = NoOpRet /\ ShapeUnsqueeze(dims, axis)
    \/ TensorDropView

SpecShape == ShapeInit /\ [][ShapeNext]_vars

\* Views of a Tensor, views of views, and squeezes of their shapes.
ViewsNext ==
    \/ \E ranges \in SliceRanges : TensorSlice(ranges)
    \/ \E axes \in TransposeAxes : TensorTranspose(axes)
    \/ TensorKeepView
    \/ TensorDropView
    \/ \E axis \in Axes : op_ret = NoOpRet /\ ShapeSqueeze(tensors[1].obj.shape_, axis)
    \/ \E axis \in Axes : op_ret = NoOpRet /\ ShapeUnsqueeze(tensors[1].obj.shape_, axis)

SpecViews == ViewsInit /\ [][ViewsNext]_vars

\* Tensors constructed with and without an allocator, copied, moved, pointed at
\* the caller's memory (which stays the caller's), emptied and destroyed.
TensorNext ==
    \E t \in TensorIds :
        \/ \E dims \in OwnedShapes, allocator \in TensorAllocators : TensorCtor(t, dims, "INT8", allocator)
        \/ TensorDeallocate(t)
        \/ \E new_data \in {0, ViewData}, take_ownership \in {FALSE} :
              TensorSetData(t, new_data, take_ownership)
        \/ TensorDtor(t)
        \/ \E o \in TensorIds : TensorCopyCtor(t, o)
        \/ \E o \in TensorIds : TensorCopyAssign(t, o)
        \/ \E o \in TensorIds : TensorMoveCtor(t, o)
        \/ \E o \in TensorIds : TensorMoveAssign(t, o)

SpecTensor == TensorInit /\ [][TensorNext]_vars

\* Values quantized and dequantized with one scale.
QuantNext ==
    \/ \E value \in QuantValues, scale \in QuantScales : Quantize(value, scale)
    \/ Dequantize
    \/ TensorDropView

SpecQuant == ShapeInit /\ [][QuantNext]_vars

\* ------------------------------------------------------------------ the dataflow relation
\* u -> v: node v has an input Value whose producer is node u.
Edge(u, v) ==
    \E i \in 1..Len(node_inputs[v]) :
        node_inputs[v][i] # NullPtr /\ producer[node_inputs[v][i]] = u

Succs(S) == {v \in NodeSet : \E u \in S : Edge(u, v)}

RECURSIVE ReachableFrom(_)
ReachableFrom(S) == IF Succs(S) \subseteq S THEN S ELSE ReachableFrom(S \cup Succs(S))

\* Some node is reachable from itself, self-loops included.
Cyclic == \E n \in NodeSet : n \in ReachableFrom(Succs({n}))

Sorted == ret.call = "topologicalSort"

\* ------------------------------------------------------------------ claims
\* C1: for a cycle-free wiring topologicalSort returns every node of the graph
\* exactly once (a permutation of the nodes).
C1_SortIsPermutation ==
    (Sorted /\ ~Cyclic) =>
        /\ Len(ret.order) = Len(nodes_)
        /\ Range(ret.order) = NodeSet

\* C2: in the order topologicalSort returns, for every edge u -> v (u # v) with
\* both nodes in the order, u comes before v.
C2_EdgesGoForward ==
    Sorted =>
        \A u, v \in Range(ret.order) :
            (u # v /\ Edge(u, v)) => IndexOf(ret.order, u) < IndexOf(ret.order, v)

\* C3: for a graph with a cycle topologicalSort returns strictly fewer nodes
\* than the graph holds.
C3_CycleGivesShortOrder ==
    (Sorted /\ Cyclic) => Len(ret.order) < Len(nodes_)

\* C4: validate raises on every graph with a cycle.
C4_ValidateRejectsCycles ==
    (ret.call = "validate" /\ Cyclic) => ret.threw

\* C5: when validate returns without raising, every node's parent is this
\* graph, every entry of every node's input and output list is non-null and
\* owned by the graph, every output has the node as producer, the node is among
\* the consumers of each of its inputs, and every graph input and output is
\* non-null and owned.
C5_ValidatedGraphIsSound ==
    (ret.call = "validate" /\ ~ret.threw) =>
        /\ \A n \in NodeSet :
            /\ node_graph[n] = "this"
            /\ \A i \in 1..Len(node_inputs[n]) :
                 /\ node_inputs[n][i] # NullPtr
                 /\ node_inputs[n][i] \in Range(values_)
                 /\ n \in Range(consumers[node_inputs[n][i]])
            /\ \A i \in 1..Len(node_outputs[n]) :
                 /\ node_outputs[n][i] # NullPtr
                 /\ node_outputs[n][i] \in Range(values_)
                 /\ producer[node_outputs[n][i]] = n
        /\ \A v \in Range(graph_inputs) \cup Range(graph_outputs) :
                 v # NullPtr /\ v \in Range(values_)

\* A validated graph in which a node has an input, a node has an output and the
\* graph declares an input and an output.
C5_Witness ==
    /\ ret.call = "validate" /\ ~ret.threw
    /\ \E n \in NodeSet : node_inputs[n] # <<>>
    /\ \E n \in NodeSet : node_outputs[n] # <<>>
    /\ graph_inputs # <<>> /\ graph_outputs # <<>>

Executed == ret.call = "execute" /\ ~ret.threw /\ nodes_ # <<>>

HasOp(n) == node_op[n] # "null"

\* C6: in a successful execute every node with an operator has its operator run
\* exactly once, in the order topologicalSort returned, and every operator runs
\* after the operators producing its input Values.
C6_OperatorsRunInDataflowOrder ==
    Executed =>
        /\ Len(ret.order) = Len(nodes_)
        /\ Range(ret.order) = NodeSet
        /\ ret.log = SelectSeq(ret.order, HasOp)
        /\ \A n \in Range(ret.log) : \A i \in 1..Len(node_inputs[n]) :
             LET p == producer[node_inputs[n][i]] IN
             (p # NullPtr /\ HasOp(p)) =>
                 /\ p \in Range(ret.log)
                 /\ IndexOf(ret.log, p) < IndexOf(ret.log, n)

\* C7: between execute calls no Value holds a pointer to the runtime input view
\* of a call that has ended.
C7_NoBindingOutlivesExecute ==
    \A v \in ValueIds : tensor[v] # "dead"

\* C8: execute returns the caller's input when the graph has no nodes;
\* otherwise a copy of the tensor bound to the graph output when exactly one
\* output is declared and bound, and the caller's input in every other case.
C8_ExecuteReturn ==
    (ret.call = "execute" /\ ~ret.threw) =>
        IF nodes_ = <<>> THEN ret.result = "input"
        ELSE IF Len(graph_outputs) = 1 /\ tensor[graph_outputs[1]] # "null"
             THEN ret.result = "bound"
             ELSE ret.result = "input"

\* What Graph::validate decides for the graph as it stands.
validates ==
    /\ validateStructure = "ok"
    /\ \E q0 \in InitialQueues : Len(topoOrder(q0)) = Len(nodes_)

Planned == ret.call = "planMemory"

\* C9: for a graph that validates, planMemory().lifetimes has exactly one entry
\* per Value the graph owns, and first_index <= last_index in each.
C9_OneLifetimePerValue ==
    (Planned /\ validates) =>
        /\ DOMAIN ret.lifetimes = Range(values_)
        /\ \A v \in Range(values_) :
             ret.lifetimes[v].first_index <= ret.lifetimes[v].last_index

\* A validated two-node graph, planned, with a Value that is produced by one
\* node and consumed by the other.
C9_Witness ==
    /\ Planned /\ validates
    /\ Len(nodes_) = 2
    /\ \E v \in Range(values_) :
         producer[v] # NullPtr /\ consumers[v] # <<>> /\ producer[v] \notin Range(consumers[v])

MaxOf(S) == CHOOSE x \in S : \A y \in S : y <= x

\* C10: for a valid acyclic graph of n nodes, every Value gets first_index =
\* topo index of its producer (0 without producer), last_index = the largest of
\* first_index and its consumers' topo indices, extended to n-1 for a graph
\* output; so the Value is live at the topo index of its producer and of each
\* of its consumers.
C10_LifetimeCoversProducerAndConsumers ==
    (Planned /\ validates /\ ~Cyclic) =>
        \A v \in Range(values_) :
            LET lf == ret.lifetimes[v]
                first == IF producer[v] # NullPtr THEN topo_index[producer[v]] ELSE 0
                last == MaxOf({first} \cup {topo_index[c] : c \in Range(consumers[v])}
                              \cup (IF v \in Range(graph_outputs) /\ nodes_ # <<>>
                                    THEN {Len(nodes_) - 1} ELSE {}))
            IN
            /\ lf.first_index = first
            /\ lf.last_index = last
            /\ producer[v] # NullPtr =>
                 (lf.first_index <= topo_index[producer[v]]
                  /\ topo_index[producer[v]] <= lf.last_index)
            /\ \A c \in Range(consumers[v]) :
                 lf.first_index <= topo_index[c] /\ topo_index[c] <= lf.last_index

\* bytes(v) as the memory plan is specified: num_elements times
\* bytes_per_element, 0 for an UNKNOWN dtype or no elements.
SpecBytes(v) ==
    IF value_meta[v].dtype = "UNKNOWN" \/ value_meta[v].num_elements = 0 THEN 0
    ELSE value_meta[v].num_elements * bytes_per_element(value_meta[v].dtype)

RECURSIVE SumBytes(_)
SumBytes(S) == IF S = {} THEN 0
               ELSE LET v == CHOOSE x \in S : TRUE IN SpecBytes(v) + SumBytes(S \ {v})

LiveAt(i) == {v \in Range(values_) :
                ret.lifetimes[v].first_index <= i /\ i <= ret.lifetimes[v].last_index}

\* C11: planMemory().peak_bytes is the maximum over the topo indices i of the
\* sum of bytes(v) over the Values live at i (first_index <= i <= last_index);
\* when the topological sort does not cover all nodes the plan is empty.
C11_PeakIsMaxLiveBytes ==
    Planned =>
        IF Len(ret.order) # Len(nodes_)
        THEN ret.peak_bytes = 0 /\ ret.lifetimes = <<>>
        ELSE ret.peak_bytes = MaxOf({0} \cup {SumBytes(LiveAt(i)) : i \in 0..(Len(nodes_) - 1)})

\* C12: after any sequence of Node wiring calls, addNode and removeNode, node
\* N is among the consumers of Value V exactly when N is a node of the graph
\* and V occurs in N's input list.
C12_ConsumersMirrorInputs ==
    \A v \in ValueIds, n \in NodeIds :
        (n \in Range(consumers[v])) <=> (n \in NodeSet /\ v \in Range(node_inputs[n]))

\* A node was removed that had been wired, and a node that stays consumes a
\* Value.
C12_Witness ==
    /\ ret.call = "removeNode" /\ ret.result = "true" /\ ret.detached # <<>>
    /\ \E v \in ValueIds : consumers[v] # <<>>

\* C13: after any sequence of Node::setOutputs / Node::addOutput calls with
\* owned Values, every non-null Value in a node's output list has that node as
\* its producer.
C13_OutputsNameTheirProducer ==
    \A n \in NodeSet : \A i \in 1..Len(node_outputs[n]) :
        LET o == node_outputs[n][i] IN
        (o # NullPtr /\ o \in Range(values_)) => producer[o] = n

\* C15: removeNode(n) of a node of the graph returns true, and afterwards n is
\* not among the nodes and no Value has n as producer or consumer;
\* removeNode(nullptr) and removeNode of a node the graph does not own return
\* false and leave nodes, Values and edges unchanged.
C15_RemoveNodeDetaches ==
    [][\A n \in NodeIds \cup {NullPtr} :
          removeNode(n) =>
             IF n # NullPtr /\ n \in NodeSet
             THEN /\ ret'.result = "true"
                  /\ n \notin Range(nodes_')
                  /\ \A v \in ValueIds : producer'[v] # n /\ n \notin Range(consumers'[v])
             ELSE /\ ret'.result = "false"
                  /\ UNCHANGED <<nodes_, values_, node_inputs, node_outputs, producer,
                                 consumers, graph_inputs, graph_outputs>>]_vars

\* A node was removed whose input and output lists held at least two entries,
\* an owned Value among them.
C15_Witness ==
    /\ ret.call = "removeNode" /\ ret.result = "true"
    /\ Len(ret.detached) >= 2
    /\ \E v \in OwnedNow : v \in Range(ret.detached)

NoDuplicates(seq) == \A i, j \in 1..Len(seq) : seq[i] = seq[j] => i = j

SameOrder(old, new) ==
    \A a, b \in Range(new) :
        (IndexOf(old, a) < IndexOf(old, b)) <=> (IndexOf(new, a) < IndexOf(new, b))

\* C14: a consumer list never holds a duplicate or null; addConsumer of a node
\* already present (or of null) leaves the list unchanged and otherwise appends
\* the node; removeConsumer(n) leaves no occurrence of n and keeps the other
\* consumers in their order.
C14_ConsumersAreASet ==
    [][/\ \A v \in ValueIds :
            NoDuplicates(consumers'[v]) /\ NullPtr \notin Range(consumers'[v])
       /\ \A v \in ValueIds, n \in NodeIds \cup {NullPtr} :
            /\ ValueAddConsumer(v, n) =>
                 IF n = NullPtr \/ n \in Range(consumers[v])
                 THEN consumers'[v] = consumers[v]
                 ELSE /\ Range(consumers'[v]) = Range(consumers[v]) \cup {n}
                      /\ consumers'[v][Len(consumers'[v])] = n
                      /\ SameOrder(consumers[v], SubSeq(consumers'[v], 1, Len(consumers[v])))
            /\ ValueRemoveConsumer(v, n) =>
                 /\ n \notin Range(consumers'[v])
                 /\ Range(consumers'[v]) = Range(consumers[v]) \ {n}
                 /\ SameOrder(consumers[v], consumers'[v])]_vars

\* addConsumer was called with a node the Value already had, on a Value with
\* several consumers.
C14_Witness ==
    /\ ret.call = "addConsumer" /\ ret.result = "present"
    /\ \E v \in ValueIds : ret.node \in Range(consumers[v]) /\ Len(consumers[v]) >= 2

\* C16: while a Graph is destroyed, every Value a Node destructor reaches to
\* detach its edges is still alive: no destroyed Value is dereferenced.
C16_TeardownTouchesNoDeadValue ==
    ret.call = "~Graph" => ret.touched_dead = {}

\* The Values that hold an id: the constructed ones, as <<thread, index>>, and
\* the one a thread is constructing, as <<thread, 0>>.
Identified ==
    {<<t, i>> : t \in Threads, i \in 0..MaxIds} \cap
    {x \in Threads \X (0..MaxIds) :
        IF x[2] = 0 THEN ctor[x[1]].pc = "members" ELSE x[2] <= Len(ctor[x[1]].made)}

IdOf(x) == IF x[2] = 0 THEN ctor[x[1]].id_ ELSE ctor[x[1]].made[x[2]].id_

AfterOf(x) == IF x[2] = 0 THEN ctor[x[1]].after ELSE ctor[x[1]].made[x[2]].after

\* C17: every Value has an id different from every other Value's, also when
\* threads construct Values concurrently, and a Value whose construction began
\* after another's had completed has the strictly larger id.
C17_IdsUniqueAndIncreasing ==
    /\ \A x, y \in Identified : x # y => IdOf(x) # IdOf(y)
    /\ \A x \in Identified : \A earlier \in AfterOf(x) : IdOf(x) > earlier

\* Two threads were inside a Value constructor at the same time, and a third
\* Value was constructed after both had completed.
C17_Witness ==
    \E t, u \in Threads :
        /\ t # u
        /\ Len(ctor[t].made) >= 2 /\ Len(ctor[u].made) >= 1
        /\ ctor[t].made[1].after = {} /\ ctor[u].made[1].after = {}
        /\ Cardinality(ctor[t].made[2].after) = 2

\* C18: with B the total size of the successful allocations since the last
\* reset, B <= used() <= capacity() and stats().peak_used_bytes >= used().
C18_ArenaBounds ==
    /\ granted <= arena.used_bytes_
    /\ arena.used_bytes_ <= arena.capacity_bytes_
    /\ arena.stats_.peak_used_bytes >= arena.used_bytes_

\* Several allocations succeeded, one of them after alignment padding.
C18_Witness ==
    /\ arena.stats_.allocations >= 2
    /\ granted > 0
    /\ arena.used_bytes_ > granted

\* Bytes skipped to bring address addr up to a multiple of al.
PaddingTo(addr, al) == (al - (addr % al)) % al

\* The request of alloc_ret cannot be served: the alignment is not a power of
\* two, the arena has no capacity, or the size does not fit behind the padding.
MustFail ==
    LET b == alloc_ret.before
        al == IF alloc_ret.alignment = 0 THEN MaxAlignT ELSE alloc_ret.alignment
    IN \/ al \notin {1, 2, 4, 8, 16, 32, 64}
       \/ b.capacity_bytes_ = 0
       \/ b.used_bytes_ + PaddingTo(b.base_ + b.used_bytes_, al) + alloc_ret.size_bytes
             > b.capacity_bytes_

\* C19: an allocate that cannot be served returns null, and an allocate that
\* returns null leaves used(), stats().allocations and stats().peak_used_bytes
\* as they were.
C19_FailedAllocateChangesNothing ==
    alloc_ret.call = "allocate" =>
        /\ MustFail => alloc_ret.ptr = 0
        /\ alloc_ret.ptr = 0 =>
              /\ arena.used_bytes_ = alloc_ret.before.used_bytes_
              /\ arena.stats_ = alloc_ret.before.stats_

\* A request with a valid alignment did not fit into an arena that had already
\* served an allocation.
C19_Witness ==
    /\ alloc_ret.call = "allocate" /\ alloc_ret.ptr = 0
    /\ alloc_ret.alignment = 8
    /\ alloc_ret.before.used_bytes_ > 0
    /\ alloc_ret.before.stats_.allocations > 0

\* What reset leaves behind.
ResetClears ==
    alloc_ret.call = "reset" =>
        /\ arena.used_bytes_ = 0
        /\ arena.stats_.allocations = 0
        /\ arena.stats_.peak_used_bytes = 0
        /\ arena.capacity_bytes_ = alloc_ret.before.capacity_bytes_
        /\ arena.base_ = alloc_ret.before.base_

\* The arena and the fresh arena gave the same answer to the last request:
\* both null, or pointers at the same offset from their buffers.
SameAnswer ==
    /\ (alloc_ret.ptr = 0) <=> (alloc_ret.fresh_ptr = 0)
    /\ alloc_ret.ptr # 0 =>
          alloc_ret.ptr - alloc_ret.before.base_
             = alloc_ret.fresh_ptr - alloc_ret.fresh_before[1].base_

SameBufferAlignment ==
    \A al \in AllocAlignments \cup {MaxAlignT} :
        is_power_of_two(al) =>
            alloc_ret.before.base_ % al = alloc_ret.fresh_before[1].base_ % al

C21_AllocationsAreAligned ==
    alloc_ret.call = "allocate" =>
        /\ alloc_ret.ptr # 0 =>
              alloc_ret.ptr % (IF alloc_ret.alignment = 0 THEN MaxAlignT ELSE alloc_ret.alignment) = 0
        /\ alloc_ret.fresh_ptr # 0 =>
              alloc_ret.fresh_ptr % (IF alloc_ret.alignment = 0 THEN MaxAlignT ELSE alloc_ret.alignment) = 0
        /\ alloc_ret.alignment = 0 =>
              [arena |-> arena, ptr |-> alloc_ret.ptr]
                  = allocate(alloc_ret.before, alloc_ret.size_bytes, MaxAlignT)

\* C21 witness: a request whose alignment exceeds the arena's base alignment
\* succeeded on a bump pointer that was not yet aligned to it.
C21_Witness ==
    /\ alloc_ret.call = "allocate"
    /\ alloc_ret.ptr # 0
    /\ alloc_ret.alignment > alloc_ret.before.base_alignment_
    /\ (alloc_ret.before.base_ + alloc_ret.before.used_bytes_) % alloc_ret.alignment # 0

\* C22: with tracking enabled, once every pointer a SystemAllocator handed out
\* has been deallocated, stats() reports no live allocation and no live byte.
C22_BalancedCallsLeaveNothingLive ==
    (sys.track_allocations_ /\ held[1] = {}) =>
        /\ SystemAllocator_stats(sys).live_allocations = 0
        /\ SystemAllocator_stats(sys).live_bytes = 0

\* C22 witness: two blocks were allocated and both have been given back.
C22_Witness ==
    /\ sys.track_allocations_
    /\ call_ret.call = "deallocate"
    /\ held[1] = {}
    /\ SystemAllocator_stats(sys).allocations >= 2
    /\ SystemAllocator_stats(sys).frees >= 2

\* C24: SystemAllocator::owns(p) is, with tracking off, true for every non-null
\* p and false for null; with tracking on, true exactly for the pointers that
\* allocate, allocate_aligned or reallocate returned and that have not been
\* deallocated since.
C24_OwnsMatchesLiveBlocks ==
    /\ \A p \in SysAddrs \cup {0} :
          SystemAllocator_owns(sys, p) = (IF sys.track_allocations_ THEN p \in held[1] ELSE p # 0)
    /\ call_ret.call = "owns" => call_ret.result = SystemAllocator_owns(sys, call_ret.arg)

\* C24 witness: with tracking on, owns() was asked about a pointer that is not
\* live while another block is, after a block had been released.
C24_Witness ==
    /\ sys.track_allocations_
    /\ call_ret.call = "owns"
    /\ call_ret.arg # 0
    /\ ~call_ret.result
    /\ held[1] # {}
    /\ SystemAllocator_stats(sys).frees >= 1

\* C25: SystemAllocator::reallocate(ptr, n) with n > 0 on a live block either
\* returns null and leaves the old block allocated, tracked and untouched, or
\* returns a block whose first min(old_size, n) bytes are the old block's and
\* has released the old block exactly once.
C25_ReallocateKeepsData ==
    [][(call_ret'.call = "reallocate" /\ call_ret'.size > 0 /\ call_ret'.arg \in DOMAIN heap) =>
          IF call_ret'.ptr = 0
          THEN /\ call_ret'.arg \in DOMAIN heap'
               /\ heap'[call_ret'.arg] = heap[call_ret'.arg]
               /\ sys' = sys
          ELSE /\ call_ret'.ptr \in DOMAIN heap'
               /\ \A i \in 1..Min(Len(heap[call_ret'.arg]), call_ret'.size) :
                     heap'[call_ret'.ptr][i] = heap[call_ret'.arg][i]
               /\ call_ret'.arg \notin DOMAIN heap'
               /\ sys.track_allocations_ =>
                     /\ sys'.tracking_.stats.frees = sys.tracking_.stats.frees + 1
                     /\ call_ret'.arg \notin DOMAIN sys'.tracking_.live_sizes
      ]_vars

\* C23: with tracking enabled, in every interleaving of allocate and deallocate
\* calls from several threads no tracking update is lost: when all threads are
\* done, live_allocations and live_bytes are 0 and allocations and frees both
\* equal the number of allocate calls that succeeded.
C23_NoTrackingUpdateIsLost ==
    (sys.track_allocations_ /\ \A t \in Threads : in_call[t].pc = "idle" /\ held[t] = {}) =>
        /\ SystemAllocator_stats(sys).live_allocations = 0
        /\ SystemAllocator_stats(sys).live_bytes = 0
        /\ SystemAllocator_stats(sys).allocations = call_ret.successes
        /\ SystemAllocator_stats(sys).frees = call_ret.successes

\* C23 witness: two threads have each allocated, their blocks were live at the
\* same time, and all of them have been given back.
C23_Witness ==
    /\ sys.track_allocations_
    /\ \A t \in Threads : in_call[t].pc = "idle" /\ held[t] = {}
    /\ Cardinality({t \in Threads : in_call[t].calls >= 1}) >= 2
    /\ SystemAllocator_stats(sys).peak_live_bytes >= 3

\* Two byte ranges share a byte.
Overlap(r1, r2) == r1.ptr < r2.ptr + r2.size /\ r2.ptr < r1.ptr + r1.size

\* C26: ArenaAllocator::deallocate(ptr) leaves the Arena as it is (used() and
\* every other member), so no later allocation before reset() receives bytes of
\* a range handed out earlier; deallocate(nullptr) changes nothing at all; with
\* tracking enabled, deallocate of a live pointer removes it from the live set,
\* adds one to frees and the block's size to bytes_freed, and takes one off
\* live_allocations and the size off live_bytes (neither goes below 0).
C26_DeallocateIsNoOpForMemory ==
    [][/\ call_ret'.call = "deallocate" =>
            /\ aa'.arena_ = aa.arena_
            /\ call_ret'.arg = 0 => aa' = aa
            /\ (aa.track_allocations_ /\ call_ret'.arg \in DOMAIN aa.tracking_.live_sizes) =>
                  /\ call_ret'.arg \notin DOMAIN aa'.tracking_.live_sizes
                  /\ aa'.tracking_.stats.frees = aa.tracking_.stats.frees + 1
                  /\ aa'.tracking_.stats.bytes_freed
                        = aa.tracking_.stats.bytes_freed + aa.tracking_.live_sizes[call_ret'.arg]
                  /\ aa'.tracking_.stats.live_allocations
                        = Max(0, aa.tracking_.stats.live_allocations - 1)
                  /\ aa'.tracking_.stats.live_bytes
                        = Max(0, aa.tracking_.stats.live_bytes - aa.tracking_.live_sizes[call_ret'.arg])
       /\ (call_ret'.call \in {"allocate", "allocate_aligned"} /\ call_ret'.ptr # 0) =>
            \A r \in issued : ~Overlap(r, [ptr |-> call_ret'.ptr, size |-> call_ret'.size])
      ]_vars

\* C26 witness: with tracking on a live block was deallocated, and a later
\* allocation succeeded before any reset.
C26_Witness ==
    /\ aa.track_allocations_
    /\ call_ret.call \in {"allocate", "allocate_aligned"}
    /\ call_ret.ptr # 0
    /\ aa.tracking_.stats.bytes_freed > 0
    /\ aa.tracking_.stats.live_allocations = 1
    /\ Cardinality(issued) = 2

\* The cumulative counters of an AllocationStats.
Cumulative(st) == <<st.allocations, st.frees, st.bytes_allocated, st.bytes_freed, st.peak_live_bytes>>

\* What reset() and reset_stats() do to the arena and the counters: reset()
\* sets used() to 0, empties the live set and leaves the cumulative counters;
\* no call but reset_stats() lowers a cumulative counter.
ResetKeepsCounters ==
    /\ call_ret'.call = "reset" =>
          /\ aa'.arena_.used_bytes_ = 0
          /\ aa'.tracking_.live_sizes = NoLiveSizes
          /\ ArenaAllocator_stats(aa').live_allocations = 0
          /\ ArenaAllocator_stats(aa').live_bytes = 0
          /\ Cumulative(ArenaAllocator_stats(aa')) = Cumulative(ArenaAllocator_stats(aa))
    /\ call_ret'.call = "reset_stats" => ArenaAllocator_stats(aa') = NoAllocationStats
    /\ call_ret'.call # "reset_stats" =>
          \A i \in 1..5 : Cumulative(ArenaAllocator_stats(aa'))[i] >= Cumulative(ArenaAllocator_stats(aa))[i]

\* C27 as stated: ArenaAllocator::reset() sets used() to 0, empties the live set
\* (live_allocations and live_bytes 0, owns(p) false for every pointer returned
\* before) and leaves the cumulative counters, which only reset_stats() zeroes.
C27_ResetEmptiesLiveSet ==
    [][/\ ResetKeepsCounters
       /\ call_ret'.call = "reset" =>
             \A p \in held[1] \cup IssuedPtrs : ~ArenaAllocator_owns(aa', p)
      ]_vars

\* C27 amended: as above, with owns(p) false after reset() for every pointer
\* returned before when tracking is enabled; with tracking off owns(p) stays
\* true for each of them, as they lie inside the arena's buffer.
C27_ResetEmptiesTrackedLiveSet ==
    [][/\ ResetKeepsCounters
       /\ call_ret'.call = "reset" =>
             \A p \in held[1] \cup IssuedPtrs :
                 ArenaAllocator_owns(aa', p) = ~aa.track_allocations_
      ]_vars

\* C27 witness: reset() ran on a tracking allocator with a live block the
\* caller still holds; the cumulative counters still show the allocation.
C27_Witness ==
    /\ aa.track_allocations_
    /\ call_ret.call = "reset"
    /\ held[1] # {}
    /\ aa.tracking_.stats.allocations >= 1
    /\ aa.tracking_.stats.peak_live_bytes >= 8
    /\ aa.tracking_.live_sizes = NoLiveSizes

\* C28: in every interleaving of allocate and deallocate calls of several
\* threads on a tracking ArenaAllocator, no two successful allocations receive
\* overlapping byte ranges, used() never exceeds capacity(), and when no call
\* is in progress every successful allocation is recorded once: the pointers
\* held are exactly the live set and live_allocations counts them.
C28_ConcurrentAllocationsAreDisjoint ==
    aa.track_allocations_ =>
        /\ \A r1, r2 \in issued : r1 # r2 => ~Overlap(r1, r2)
        /\ aa.arena_.used_bytes_ <= aa.arena_.capacity_bytes_
        /\ (\A t \in Threads : in_call[t].pc = "idle") =>
              /\ DOMAIN aa.tracking_.live_sizes = UNION {held[t] : t \in Threads}
              /\ aa.tracking_.stats.allocations = Cardinality(issued)

\* C29: Buffer ownership invariant. In every state of a Buffer (after either
\* constructor, a successful or failed allocate(), deallocate(), copy and move
\* construction and assignment), owns_data() implies that the base pointer is
\* not null, and the data pointer is never below the base pointer.
C29_OwnerHasBase ==
    \A b \in BufIds :
        bufs[b].alive =>
            /\ bufs[b].obj.owns_ => bufs[b].obj.base_ # 0
            /\ bufs[b].obj.data_ >= bufs[b].obj.base_

\* C30: a Buffer that took its memory from a supplied Allocator gives it back
\* to that Allocator on every drop path: once no Buffer is left, the
\* allocator's tracked live_allocations and live_bytes are back at the values
\* they had before any Buffer allocated, and every block it handed out has been
\* released through it (frees equals allocations).
C30_AllocatorGetsItsBlocksBack ==
    (\A b \in BufIds : ~bufs[b].alive) =>
        /\ SystemAllocator_stats(sys).live_allocations = 0
        /\ SystemAllocator_stats(sys).live_bytes = 0
        /\ SystemAllocator_stats(sys).frees = SystemAllocator_stats(sys).allocations

\* C38: between two Arena::reset calls, the byte ranges [p, p + size) of the
\* successful Arena::allocate calls with size > 0 are pairwise disjoint, and
\* each lies inside [base, base + capacity) (so Arena::owns its first byte),
\* whatever the sizes and power-of-two alignments requested.
C38_ArenaRangesAreDisjoint ==
    \A r1 \in issued :
        r1.size > 0 =>
            /\ arena.base_ <= r1.ptr
            /\ r1.ptr + r1.size <= arena.base_ + arena.capacity_bytes_
            /\ owns(arena, r1.ptr)
            /\ \A r2 \in issued : (r2.size > 0 /\ r2 # r1) => ~Overlap(r1, r2)

\* C38 witness: blocks of different sizes are out, one of them placed after
\* alignment padding, and the last ends where the buffer ends.
C38_Witness ==
    /\ \E r1, r2 \in issued : r1.size > 0 /\ r2.size > r1.size
    /\ arena.used_bytes_ > granted
    /\ arena.used_bytes_ = arena.capacity_bytes_

\* The sum of the sizes recorded for the pointers ptrs.
RECURSIVE RecordedBytes(_, _)
RecordedBytes(live_sizes, ptrs) ==
    IF ptrs = {} THEN 0
    ELSE LET p == CHOOSE q \in ptrs : TRUE
         IN live_sizes[p] + RecordedBytes(live_sizes, ptrs \ {p})

\* C39: with tracking enabled, after any sequence of allocate,
\* allocate_aligned, deallocate, reset and reset_stats on an ArenaAllocator,
\* stats().live_allocations is the number of pointers for which owns() is true,
\* stats().live_bytes is the sum of their recorded sizes, and peak_live_bytes
\* is at least live_bytes.
C39_StatsMatchLiveSet ==
    aa.track_allocations_ =>
        LET owned == {p \in IssuedPtrs \cup held[1] : ArenaAllocator_owns(aa, p)} IN
        /\ owned = DOMAIN aa.tracking_.live_sizes
        /\ ArenaAllocator_stats(aa).live_allocations = Cardinality(owned)
        /\ ArenaAllocator_stats(aa).live_bytes = RecordedBytes(aa.tracking_.live_sizes, owned)
        /\ ArenaAllocator_stats(aa).peak_live_bytes >= ArenaAllocator_stats(aa).live_bytes

\* C40: a Buffer that was allocated successfully through the platform aligned
\* allocation path (allocator nullptr) with a power-of-two alignment a of at
\* least the pointer size has data() at a multiple of a, the value alignment()
\* reports, without and with canary guards.
C40_DataIsAligned ==
    \A b \in BufIds :
        (/\ call_ret.call \in {"Buffer", "Buffer::allocate"}
         /\ call_ret.arg = b /\ call_ret.ptr = 0 /\ call_ret.result
         /\ is_power_of_two(bufs[b].obj.alignment_)
         /\ bufs[b].obj.alignment_ >= SizeofVoidPtr)
            => /\ bufs[b].obj.data_ # 0
               /\ bufs[b].obj.data_ % bufs[b].obj.alignment_ = 0

\* The size of shape dims on axis i of n right-aligned axes (1 where dims has
\* no such axis).
RightAligned(dims, n, i) == IF i > n - Len(dims) THEN dims[i - (n - Len(dims))] ELSE 1

\* Right-aligned, the axes of s and t are pairwise equal or one of them is 1.
Broadcastable(s, t) ==
    \A i \in 1..Max(Len(s), Len(t)) :
        LET a == RightAligned(s, Max(Len(s), Len(t)), i)
            b == RightAligned(t, Max(Len(s), Len(t)), i)
        IN a = b \/ a = 1 \/ b = 1

IsPermutation(axes, rank) ==
    /\ Len(axes) = rank
    /\ \A k \in 0..(rank - 1) : \E i \in 1..rank : axes[i] = k

\* C34: t.transpose(p) for a permutation p of the axes has dim[i] = t.dim[p[i]]
\* and stride[i] = t.stride[p[i]], shares t's data pointer and owns nothing,
\* whatever strides t has; axes that are not a permutation are rejected with
\* std::invalid_argument.
C34_TransposePermutesStrides ==
    op_ret.call = "Tensor::transpose" =>
        LET t == op_ret.args[1]
            p == op_ret.args[2]
            view == op_ret.result
        IN
        IF IsPermutation(p, Len(t.shape_))
        THEN /\ op_ret.threw = "none"
             /\ Len(view.shape_) = Len(t.shape_)
             /\ Len(view.strides_) = Len(t.shape_)
             /\ \A i \in 1..Len(t.shape_) :
                   /\ view.shape_[i] = t.shape_[p[i] + 1]
                   /\ view.strides_[i] = t.strides_[p[i] + 1]
             /\ view.data_ = t.data_
             /\ view.dtype_ = t.dtype_
             /\ ~view.owns_data_
        ELSE /\ op_ret.threw = "std::invalid_argument"
             /\ view = NoTensor

\* C34 witness: a view whose strides are not the row-major strides of its
\* shape was transposed by a permutation that moves an axis.
C34_Witness ==
    /\ op_ret.call = "Tensor::transpose"
    /\ op_ret.threw = "none"
    /\ op_ret.args[1].strides_ # compute_strides(op_ret.args[1].shape_, op_ret.args[1].dtype_)
    /\ op_ret.args[2] = <<1, 0>>
    /\ op_ret.result.shape_[1] # op_ret.result.shape_[2]
    /\ op_ret.result.strides_ # op_ret.args[1].strides_

\* A slice bound counted from the front of an axis of dim_size elements.
FromFront(bound, dim_size) == IF bound < 0 THEN bound + dim_size ELSE bound

\* The sum of starts[i] * strides[i] over the axes i..Len(starts).
RECURSIVE StartBytes(_, _, _)
StartBytes(starts, strides, i) ==
    IF i > Len(starts) THEN 0 ELSE starts[i] * strides[i] + StartBytes(starts, strides, i + 1)

\* C35: with one (start, end) per axis that satisfies 0 <= start <= end <=
\* dim_size once negative bounds are counted from the back, t.slice(ranges) is
\* a view that owns nothing, has length end - start on each axis, points
\* sum(start_i * stride_i) bytes past t's data and keeps t's strides; the view
\* is contiguous exactly when those strides are the row-major strides of its
\* own shape or it has no elements.
C35_SliceIsAStridedView ==
    op_ret.call = "Tensor::slice" =>
        LET t == op_ret.args[1]
            ranges == op_ret.args[2]
            view == op_ret.result
            rank == Len(t.shape_)
        IN
        (/\ Len(ranges) = rank
         /\ \A i \in 1..rank :
               /\ 0 <= FromFront(ranges[i][1], t.shape_[i])
               /\ FromFront(ranges[i][1], t.shape_[i]) <= FromFront(ranges[i][2], t.shape_[i])
               /\ FromFront(ranges[i][2], t.shape_[i]) <= t.shape_[i])
        =>
        /\ op_ret.threw = "none"
        /\ ~view.owns_data_
        /\ view.shape_ = [i \in 1..rank |-> FromFront(ranges[i][2], t.shape_[i])
                                             - FromFront(ranges[i][1], t.shape_[i])]
        /\ view.data_ = t.data_ + StartBytes([i \in 1..rank |-> FromFront(ranges[i][1], t.shape_[i])],
                                             t.strides_, 1)
        /\ view.strides_ = t.strides_
        /\ is_contiguous(view) <=>
              \/ view.strides_ = compute_strides(view.shape_, view.dtype_)
              \/ num_elements(view.shape_) = 0

\* C35 witness: a slice that starts inside its Tensor, has elements, was given
\* a bound counted from the back, and is not contiguous.
C35_Witness ==
    /\ op_ret.call = "Tensor::slice"
    /\ op_ret.threw = "none"
    /\ op_ret.result.data_ > op_ret.args[1].data_
    /\ num_elements(op_ret.result.shape_) > 0
    /\ \E i \in 1..Len(op_ret.args[2]) : op_ret.args[2][i][2] < 0
    /\ ~is_contiguous(op_ret.result)

\* C36: squeeze with an axis out of range after adding the rank, unsqueeze
\* with an axis outside [-(rank+1), rank] and slice with a range that violates
\* 0 <= start <= end <= dim_size all fail with std::invalid_argument, the
\* exception of squeezing a dimension that is not 1, and return nothing.
C36_BadAxisIsInvalidArgument ==
    LET dims == op_ret.args[1]
        axis == op_ret.args[2]
        t == op_ret.args[1]
        ranges == op_ret.args[2]
    IN
    /\ (/\ op_ret.call = "Shape::squeeze"
        /\ axis # -1
        /\ (axis + Len(dims) < 0 \/ axis >= Len(dims)))
       => (op_ret.threw = "std::invalid_argument" /\ op_ret.result = <<>>)
    /\ (/\ op_ret.call = "Shape::squeeze"
        /\ axis # -1
        /\ FromFront(axis, Len(dims)) \in 0..(Len(dims) - 1)
        /\ dims[FromFront(axis, Len(dims)) + 1] # 1)
       => (op_ret.threw = "std::invalid_argument" /\ op_ret.result = <<>>)
    /\ (/\ op_ret.call = "Shape::unsqueeze"
        /\ (axis < -(Len(dims) + 1) \/ axis > Len(dims)))
       => (op_ret.threw = "std::invalid_argument" /\ op_ret.result = <<>>)
    /\ (/\ op_ret.call = "Tensor::slice"
        /\ Len(ranges) = Len(t.shape_)
        /\ \E i \in 1..Len(ranges) :
              ~(/\ 0 <= FromFront(ranges[i][1], t.shape_[i])
                /\ FromFront(ranges[i][1], t.shape_[i]) <= FromFront(ranges[i][2], t.shape_[i])
                /\ FromFront(ranges[i][2], t.shape_[i]) <= t.shape_[i]))
       => (op_ret.threw = "std::invalid_argument" /\ op_ret.result = NoTensor)

\* round(value / scale) lies in [-128, 127]: the quantized value is not clipped.
NotClipped(value, scale) == 2 * value < 255 * scale /\ 2 * value > -257 * scale

\* C37: with scale > 0 and a quantized value that is not clipped, the round
\* trip through quantize and dequantize moves a value by at most scale / 2;
\* quantize yields a value in [-128, 127], and throws std::invalid_argument
\* when scale <= 0.
C37_RoundTripWithinHalfStep ==
    /\ op_ret.call = "quantize_symmetric_int8" =>
          IF op_ret.args[2] <= 0 THEN op_ret.threw = "std::invalid_argument"
          ELSE /\ op_ret.threw = "none"
               /\ op_ret.result \in (-128)..127
    /\ op_ret.call = "dequantize_symmetric_int8" =>
          LET x == op_ret.of[1]
              scale == op_ret.args[2]
              y == op_ret.result
          IN NotClipped(x, scale) => 2 * Max(y - x, x - y) <= scale

\* C37 witness: a value that lies exactly half a step from its quantized
\* value, below zero, came back from the round trip.
C37_Witness ==
    /\ op_ret.call = "dequantize_symmetric_int8"
    /\ NotClipped(op_ret.of[1], op_ret.args[2])
    /\ op_ret.of[1] < 0
    /\ op_ret.args[2] > 1
    /\ 2 * (op_ret.of[1] - op_ret.result) = op_ret.args[2]

\* C31: a Tensor that got its storage from an Allocator gives it back through
\* that Allocator's deallocate, on destruction, deallocate(), set_data() and
\* assignment over it: the allocator no longer owns a block a Tensor has
\* released, and once no Tensor is left its tracked live_allocations and
\* live_bytes are 0 and every block it handed out has been released through it
\* (frees equals allocations).
C31_ReleasedThroughAllocator ==
    /\ (op_ret.call # "none" /\ op_ret.result.released # 0) =>
          ~SystemAllocator_owns(sys, op_ret.result.released)
    /\ (\A t \in TensorIds : ~tensors[t].alive) =>
          /\ SystemAllocator_stats(sys).live_allocations = 0
          /\ SystemAllocator_stats(sys).live_bytes = 0
          /\ SystemAllocator_stats(sys).frees = SystemAllocator_stats(sys).allocations

\* The Tensors that own the storage at p.
OwnersOf(p) == {t \in TensorIds : tensors[t].alive /\ tensors[t].obj.owns_data_ /\ tensors[t].obj.data_ = p}

\* No storage has two owning Tensors, every owned storage is a block on the
\* heap, and the last call released no block that was not on the heap.
OneOwnerOneRelease ==
    /\ \A t \in TensorIds :
          (tensors[t].alive /\ tensors[t].obj.owns_data_ /\ tensors[t].obj.data_ # 0) =>
              /\ OwnersOf(tensors[t].obj.data_) = {t}
              /\ tensors[t].obj.data_ \in DOMAIN heap
    /\ (op_ret.call # "none" /\ op_ret.result.released # 0) => op_ret.result.was_live

CopyCalls == {"Tensor(const Tensor&)", "operator=(const Tensor&)"}
MoveCalls == {"Tensor(Tensor&&)", "operator=(Tensor&&)"}
AssignCalls == {"operator=(const Tensor&)", "operator=(Tensor&&)"}

\* What the last copy or move did to its destination and its source: a copy
\* shares the source's data pointer and does not own, a move takes the source's
\* data pointer and ownership and leaves the source null and not owning, and an
\* assignment over an owning destination has released the destination's storage.
CopiedOrMoved ==
    LET dst == tensors[op_ret.args[1]].obj
        src == tensors[op_ret.args[2]].obj
        dst_before == op_ret.of[1]
        src_before == op_ret.of[2]
    IN
    /\ op_ret.call \in CopyCalls =>
          /\ dst.data_ = src_before.data_
          /\ ~dst.owns_data_
    /\ op_ret.call \in MoveCalls =>
          /\ dst.data_ = src_before.data_
          /\ dst.owns_data_ = src_before.owns_data_
          /\ src.data_ = 0
          /\ ~src.owns_data_
    /\ (op_ret.call \in AssignCalls /\ dst_before.owns_data_ /\ dst_before.data_ # 0) =>
          /\ op_ret.result.released = dst_before.data_
          /\ dst_before.data_ \notin DOMAIN heap

\* C32 as stated: after any sequence of copy and move constructions and
\* assignments no storage has two owning Tensors and none is released twice; a
\* copy shares the data pointer and never owns, a move gives the destination
\* the source's ownership and leaves the source with null data and not owning,
\* and an owning destination of an assignment has released its old storage.
C32_AtMostOneOwner ==
    /\ OneOwnerOneRelease
    /\ (op_ret.call \in CopyCalls \cup MoveCalls) => CopiedOrMoved

\* C32, amended: the same between two different Tensors; an assignment of a
\* Tensor to itself releases nothing and leaves the Tensor as it was.
C32_AtMostOneOwnerAmongDistinct ==
    /\ OneOwnerOneRelease
    /\ (op_ret.call \in CopyCalls \cup MoveCalls) =>
          IF op_ret.args[1] # op_ret.args[2] THEN CopiedOrMoved
          ELSE /\ tensors[op_ret.args[1]].obj = op_ret.of[1]
               /\ op_ret.result.released = 0

\* C32 witness: a Tensor that owned a block was move-assigned from another
\* owner of a block while a third Tensor holds a copy of the source: the old
\* block is released, the destination is the one owner of the source's block.
C32_Witness ==
    /\ op_ret.call = "operator=(Tensor&&)"
    /\ op_ret.args[1] # op_ret.args[2]
    /\ op_ret.result.released # 0
    /\ op_ret.of[2].owns_data_
    /\ op_ret.of[2].data_ # 0
    /\ OwnersOf(op_ret.of[2].data_) = {op_ret.args[1]}
    /\ \E c \in TensorIds :
          /\ c \notin {op_ret.args[1], op_ret.args[2]}
          /\ tensors[c].alive
          /\ tensors[c].obj.data_ = op_ret.of[2].data_
          /\ ~tensors[c].obj.owns_data_


====
